---- MODULE Spec2Model ----
(***************************************************************************)
(* A state-machine model of the foldVR viewer: the overlay panel manager   *)
(* (UIPanelManager, BasePanel, QuickLoadPanel), the wrist/context radial   *)
(* menu (RadialMenu), the structure loader's representation selection      *)
(* (PDBLoader.loadPDB) and the scene controller (ConfinedSpaceXR): loading, *)
(* representation cycling, the scale transition, and the long-press        *)
(* context-menu machine of the right-hand trigger.                         *)
(*                                                                         *)
(* Units.  Time is counted in ticks of 0.1 s, so HOLD_TIME = 0.4 s is 4    *)
(* and DURATION = 0.5 s is 5.  Scales are counted in thousandths, so a     *)
(* scale of 1 is One = 1000 and 1% of it is 10.  Heights of a bounding box *)
(* are in thousandths of a scene unit as well.                             *)
(***************************************************************************)
EXTENDS Integers, Sequences, FiniteSets, TLC

(***************************************************************************)
(* Bounds of the model.                                                    *)
(***************************************************************************)
\* the largest frame time delta, in ticks
MaxDelta == 2
\* frames with the trigger held are explored up to this hold duration
MaxHold == 6
\* how many render groups (loads and representation switches) are built
MaxGroups == 6
\* how many loads are requested
MaxLoads == 2
\* loadPDB is applied to every atom count this close to one of its thresholds
Window == 5
\* the left stick is tried at every position up to this far from rest on each
\* axis, in hundredths of full deflection
StickSpan == 6
\* parsePDB is applied to every text of at most this many lines
MaxLines == 3
\* createBallStick is applied to every sequence of at most this many atoms
\* at the positions tried
MaxAtoms == 3

(***************************************************************************)
(* Program constants.                                                      *)
(***************************************************************************)
\* ConfinedSpaceXR.animate: const HOLD_TIME = 0.4 (ticks of 0.1 s)
HOLD_TIME == 4
\* ConfinedSpaceXR.animate: const DURATION = 0.5 (ticks of 0.1 s)
DURATION == 5
\* a scale of exactly 1, in thousandths
One == 1000
\* loadPDB thresholds on the atom count
TooLargeAbove == 50000
PointCloudAbove == 20000
WireframeAbove == 5000
\* createTransparentSurface falls back to wireframe above this atom count
SurfaceCeiling == 2000
\* createRibbon returns an empty group below this atom count
RibbonMinAtoms == 2
\* stick dead zone 0.05, in hundredths of full deflection
Dead == 5
\* createBallStick: atoms closer than 1.8 are bonded (hundredths of a unit)
BondLength == 180
\* createBallStick: bonds are made only for fewer atoms than this
BondCeiling == 2000
\* loads requested where liveness is checked
MaxLiveLoads == 1
\* frames peers send in all
MaxSends == 1
\* createRibbon: the stride is the atom count divided by this
RibbonSamples == 300

VARIABLES
  \* ---- UIPanelManager and its panels
  panelVisible,        \* panel id -> object3d.visible
  hoverClose,          \* panel id -> BasePanel.hoverClose
  qlHoverIndex,        \* QuickLoadPanel.hoverIndex
  \* ---- wrist menu and desktop overlay
  menuHoverIndex,      \* RadialMenu.hoverIndex of this.menu
  menuVisible,         \* ConfinedSpaceXR.menuVisible
  menuObjVisible,      \* this.menu.object3d.visible
  overlayShown,        \* LoadOverlay root displayed
  \* ---- XR session and controllers
  isPresenting,        \* renderer.xr.isPresenting
  inputSource,         \* controller index -> userData.inputSource: its handedness
                       \* ("none" when undefined) and whether it has a gamepad
  leftController,      \* index of this.leftController, 0 when undefined
  rightController,     \* index of this.rightController, 0 when undefined
  pressed,             \* controller index -> the trigger is down, which is
                       \* gamepad.buttons[0].pressed of a source with a gamepad
  selecting,           \* controller index -> selectstart delivered, selectend not yet
  \* ---- long-press context menu
  triggerHeld,
  triggerHoldDuration,
  contextMenu,         \* [defined, hoverIndex] of this.contextMenu
  contextMenuVisible,
  ctxInScene,          \* number of context-menu objects in the scene graph
  \* ---- molecule and transition
  moleculeGroup,       \* group id, 0 when undefined
  atoms,               \* atom count of this.atoms, -1 when undefined
  repIndex,
  moleculeScale,
  transitionOld,       \* group id, 0 when undefined
  transitionNew,       \* group id, 0 when undefined
  transitionProgress,
  groups,              \* sequence of the render groups built so far, by id
  scene,               \* set of group ids in the scene graph
  pending,             \* set of load requests awaiting their fetch
  nextReq,             \* next load request number
  \* ---- observation of the run (not program state)
  mgrLast,             \* the last UIPanelManager call made directly: [op, arg, pre]
  mgrPrev,             \* the one before it
  invoked,             \* menu actions invoked by the last handler, in order
  spawned,             \* context menus spawned since the last press of rightController's trigger
  heldTicks,           \* frame time accumulated since then in frames that read it as down
  afterFrame,          \* the last handler that ran was animate
  styleHist,           \* the style displayed before each of the last five
                       \* next-representation commands given in a row
  resolved,            \* the fetch the last handler resumed from: [req, ok, n, error]
                       \* (n the atom records of the text, -1 when no text was read),
                       \* NoResolve when the last handler was not the rest of a load
  frameInput,          \* what the devices reported to the last animate call
                       \* (observed in the hover specification only)
  \* ---- a RadialMenu on its own
  hoverIndex,          \* RadialMenu.hoverIndex
  wedgeColor,          \* wedge index -> colour of the wedge's material
  menuCall,            \* the last call made on the menu: [op, x, y, index]
  itemList,            \* RadialMenu.items: sequence of [label, action]
  setActionCall,       \* the last setAction call: [label, action]
  \* ---- parsePDB on its own
  pdbLines,            \* the lines of the text, each by its columns
  parsed,              \* the atoms parsePDB returned
  parsedDone,          \* parsePDB has been called
  \* ---- createBallStick's bonds on their own
  bondAtoms,           \* the atom sequence, by position in hundredths of a unit
  bonds,               \* the bond cylinders added, each by the indices <<i, j>>
                       \* (0-based) of the atoms it joins
  bondsDone,           \* createBallStick has been called
  pressSelect,         \* what the selectstart of the latest right-trigger press
                       \* ran: "menu" (an action of the wrist menu), "panel" (a
                       \* select a panel consumed) or "none"
  \* ---- the relay server and the peers' NetworkManagers
  readyState,          \* per peer: the state of its socket in wss.clients
                       \* ("absent" when it is not in the set)
  toServer,            \* per peer: frames it sent that the relay has not received yet
  toPeer,              \* per peer: frames the relay sent it that its onmessage
                       \* has not handled yet
  peerLoads,           \* per peer: the ids its onmessage passed to loadPdbId
  sentCount,           \* the number of frames peers have sent so far
  \* ---- createRibbon's control points on their own
  ribbonAtoms,         \* the number of atoms given to createRibbon
  ribbonPoints,        \* the control points of the curve, each by the index
                       \* (0-based) of the atom it is taken from
  ribbonDone,          \* createRibbon has been called
  \* ---- loadPDB on its own
  fetchOk,             \* res.ok of the fetch
  fetched,             \* number of atom records of the fetched text
  loaded               \* what loadPDB returned or threw, NotLoaded before the call

panelVars == <<panelVisible, hoverClose, qlHoverIndex>>
menuVars == <<menuHoverIndex, menuVisible, menuObjVisible, overlayShown>>
\* ctrl.userData.inputSource: the XRInputSource of the 'connected' event,
\* undefined before it and after 'disconnected'
Source(h, g) == [handedness |-> h, gamepad |-> g]
NoSource == Source("none", FALSE)

xrVars == <<isPresenting, inputSource, leftController, rightController, pressed, selecting>>
trigVars == <<triggerHeld, triggerHoldDuration, contextMenu, contextMenuVisible, ctxInScene>>
molVars == <<moleculeGroup, atoms, repIndex, moleculeScale, transitionOld,
             transitionNew, transitionProgress, groups, scene>>
loadVars == <<pending, nextReq>>
mgrHist == <<mgrLast, mgrPrev>>
obsVars == <<invoked, spawned, heldTicks, afterFrame>>
fetchVars == <<fetchOk, fetched, loaded>>
radialVars == <<hoverIndex, wedgeColor, menuCall>>
itemVars == <<itemList, setActionCall>>
parseVars == <<pdbLines, parsed, parsedDone>>
bondVars == <<bondAtoms, bonds, bondsDone>>
ribbonVars == <<ribbonAtoms, ribbonPoints, ribbonDone>>
relayVars == <<readyState, toServer, toPeer, peerLoads, sentCount>>
selectRest == <<fetchVars, radialVars, frameInput, itemVars, parseVars, bondVars,
                ribbonVars, relayVars>>
pureVars == <<selectRest, pressSelect>>
vars == <<panelVars, menuVars, xrVars, trigVars, molVars, loadVars, mgrHist, obsVars,
          styleHist, resolved, pureVars>>

(***************************************************************************)
(* UIPanelManager, BasePanel, QuickLoadPanel                               *)
(***************************************************************************)
\* type PanelId
PanelIds == {"help", "settings", "visuals", "quickLoad"}
\* the ids QuickLoadPanel is constructed with
QuickLoadEntries == <<"1CRN", "2POR", "5PTI", "4HHB", "1A4W">>

\* What a pointer ray hits: the wedge of the wrist menu (or -1), the close
\* button of the visible panel, the quick-load button (or -1) and the wedge of
\* the context menu (or -1).
Ray(m, c, q, x) == [menu |-> m, close |-> c, ql |-> q, ctx |-> x]
Miss == Ray(-1, FALSE, -1, -1)

\* BasePanel.hide applied to every panel
HideAllPanels == [p \in PanelIds |-> FALSE]

\* UIPanelManager.getPanel: the panel of an id, "undefined" for any other id
getPanel(id) == IF id \in PanelIds THEN id ELSE "undefined"

\* mutant of toggle: flips the requested panel and leaves the others alone
toggle_NoHideAll(vis, id) == [vis EXCEPT ![id] = ~vis[id]]

\* mutant of toggle: shows the requested panel whether or not it was visible
toggle_AlwaysOpen(vis, id) == [HideAllPanels EXCEPT ![id] = TRUE]

\* UIPanelManager.toggle: the panels' visibility after toggle(id)
toggle(vis, id) ==
  LET willOpen == ~vis[id]
  IN  IF willOpen THEN [HideAllPanels EXCEPT ![id] = TRUE] ELSE HideAllPanels

\* UIPanelManager.toggle returns willOpen
toggleWillOpen(vis, id) == ~vis[id]

\* the set of visible panels
Visible(vis) == {p \in PanelIds : vis[p]}

\* UIPanelManager.handlePointer / BasePanel.handlePointer: every visible panel
\* stores whether the ray is on its close button
handlePointerClose(vis, hc, ray) ==
  [p \in PanelIds |-> IF vis[p] THEN ray.close ELSE hc[p]]

\* QuickLoadPanel.handlePointer: the hovered button, when the panel is visible
handlePointerQuickLoad(vis, qh, ray) ==
  IF vis["quickLoad"] THEN ray.ql ELSE qh

\* BasePanel.select: the close button was hovered, so onClose hides the panel
BasePanelSelectCloses(hc, p) == hc[p]

\* QuickLoadPanel.select reaches onSelect: the close button is not hovered and
\* a button is
quickLoadSelects(hc, qh, p) == p = "quickLoad" /\ ~hc[p] /\ qh # -1

\* the panels' visibility after select() of panel p, up to the onSelect
\* callback: BasePanel.select hides p when its close button is hovered,
\* QuickLoadPanel.select hides it as well when no button is hovered
panelSelect(vis, hc, qh, p) ==
  IF BasePanelSelectCloses(hc, p) \/ (p = "quickLoad" /\ qh = -1)
  THEN [vis EXCEPT ![p] = FALSE] ELSE vis

\* what select() of panel p returns
panelSelectConsumed(hc, p) == p = "quickLoad" \/ BasePanelSelectCloses(hc, p)

\* onQuickLoadSelect, on the panels: the pdbInput panel does not exist, the
\* quick-load panel is toggled when it is visible
onQuickLoadSelectPanels(vis) ==
  IF vis["quickLoad"] THEN toggle(vis, "quickLoad") ELSE vis

\* The panel a select is forwarded to: the visible one, "undefined" when all
\* are hidden (select events are forwarded only to the visible panel).
handleSelectTarget(vis) ==
  IF Visible(vis) = {} THEN "undefined" ELSE CHOOSE p \in Visible(vis) : TRUE

(***************************************************************************)
(* Numbers.  The code's numbers are IEEE 754 doubles.  A natural number of *)
(* any size is a sequence of limbs below 2^15, least significant first     *)
(* (the empty sequence is 0).  A double is a record: nan and inf tell the  *)
(* two special kinds apart, neg is the sign, and a finite double is        *)
(* m * 2^e with m odd (m = 0 and e = 0 for the two zeros).                 *)
(***************************************************************************)
Limb == 2 ^ 15

RECURSIVE bigOf(_)
bigOf(n) == IF n = 0 THEN <<>> ELSE <<n % Limb>> \o bigOf(n \div Limb)

\* limb i of a, 0 above its last one
limbAt(a, i) == IF i <= Len(a) THEN a[i] ELSE 0

\* a without the zero limbs at its upper end
bigTrim(a) ==
  LET used == {i \in 1..Len(a) : a[i] # 0}
  IN  IF used = {} THEN <<>>
      ELSE SubSeq(a, 1, CHOOSE i \in used : \A j \in used : j <= i)

\* limbs lo..hi of a + b for a carry c into limb lo, and the carry out of
\* limb hi (the range is halved, so that long numbers nest only a few deep)
RECURSIVE bigAddAt(_, _, _, _, _)
bigAddAt(a, b, lo, hi, c) ==
  IF lo = hi
  THEN LET x == limbAt(a, lo) + limbAt(b, lo) + c
       IN  [limbs |-> <<x % Limb>>, c |-> x \div Limb]
  ELSE LET lower == bigAddAt(a, b, lo, (lo + hi) \div 2, c)
           upper == bigAddAt(a, b, (lo + hi) \div 2 + 1, hi, lower.c)
       IN  [limbs |-> lower.limbs \o upper.limbs, c |-> upper.c]
bigAdd(a, b) ==
  bigTrim(bigAddAt(a, b, 1, 1 + (IF Len(a) > Len(b) THEN Len(a) ELSE Len(b)), 0).limbs)

\* a - b, for a >= b
RECURSIVE bigSubAt(_, _, _, _, _)
bigSubAt(a, b, lo, hi, c) ==
  IF lo = hi
  THEN LET x == limbAt(a, lo) - limbAt(b, lo) - c
       IN  [limbs |-> <<x % Limb>>, c |-> IF x < 0 THEN 1 ELSE 0]
  ELSE LET lower == bigSubAt(a, b, lo, (lo + hi) \div 2, c)
           upper == bigSubAt(a, b, (lo + hi) \div 2 + 1, hi, lower.c)
       IN  [limbs |-> lower.limbs \o upper.limbs, c |-> upper.c]
bigSub(a, b) == IF a = <<>> THEN <<>> ELSE bigTrim(bigSubAt(a, b, 1, Len(a), 0).limbs)

\* -1, 0 or 1 as a is below, equal to or above b
bigCmp(a, b) ==
  LET apart == {i \in 1..Len(a) : limbAt(a, i) # limbAt(b, i)}
      top == CHOOSE i \in apart : \A j \in apart : j <= i
  IN  IF Len(a) < Len(b) THEN -1
      ELSE IF Len(a) > Len(b) THEN 1
      ELSE IF apart = {} THEN 0
      ELSE IF a[top] < b[top] THEN -1 ELSE 1

\* a * k + c, for k and c below 2^15
RECURSIVE bigMulSmallAt(_, _, _, _, _)
bigMulSmallAt(a, k, lo, hi, c) ==
  IF lo = hi
  THEN LET x == limbAt(a, lo) * k + c
       IN  [limbs |-> <<x % Limb>>, c |-> x \div Limb]
  ELSE LET lower == bigMulSmallAt(a, k, lo, (lo + hi) \div 2, c)
           upper == bigMulSmallAt(a, k, (lo + hi) \div 2 + 1, hi, lower.c)
       IN  [limbs |-> lower.limbs \o upper.limbs, c |-> upper.c]
bigMulSmall(a, k, c) == bigTrim(bigMulSmallAt(a, k, 1, Len(a) + 1, c).limbs)

RECURSIVE bigMul(_, _)
bigMul(a, b) ==
  IF a = <<>> \/ b = <<>> THEN <<>>
  ELSE bigAdd(bigMulSmall(a, Head(b), 0),
              IF Len(b) = 1 THEN <<>> ELSE <<0>> \o bigMul(a, Tail(b)))

\* the quotient and the remainder of a by k, for k below 2^15: the limbs
\* hi down to lo of the quotient, the upper ones first, for a remainder r
\* coming down from limb hi + 1
RECURSIVE bigDivSmallAt(_, _, _, _, _)
bigDivSmallAt(a, k, lo, hi, r) ==
  IF lo = hi
  THEN LET x == r * Limb + a[lo]
       IN  [limbs |-> <<x \div k>>, r |-> x % k]
  ELSE LET upper == bigDivSmallAt(a, k, (lo + hi) \div 2 + 1, hi, r)
           lower == bigDivSmallAt(a, k, lo, (lo + hi) \div 2, upper.r)
       IN  [limbs |-> upper.limbs \o lower.limbs, r |-> lower.r]
bigDivSmall(a, k) ==
  IF a = <<>> THEN [q |-> <<>>, r |-> 0]
  ELSE LET all == bigDivSmallAt(a, k, 1, Len(a), 0)
       IN  [q |-> bigTrim([i \in 1..Len(a) |-> all.limbs[Len(a) + 1 - i]]), r |-> all.r]

\* a * 10^k
RECURSIVE bigMulPow10(_, _)
bigMulPow10(a, k) ==
  IF k <= 4 THEN bigMulSmall(a, 10 ^ k, 0)
  ELSE LET first == bigMulPow10(a, k \div 2)
       IN  IF first = <<>> THEN first ELSE bigMulPow10(first, k - k \div 2)

\* floor(a / 10^k), and whether anything was cut off
RECURSIVE bigDivPow10(_, _)
bigDivPow10(a, k) ==
  IF k <= 4
  THEN LET once == bigDivSmall(a, 10 ^ k) IN [q |-> once.q, cut |-> once.r # 0]
  ELSE LET first == bigDivPow10(a, k \div 2)
           second == bigDivPow10(first.q, k - k \div 2)
       IN  [cut |-> first.cut \/ second.cut, q |-> second.q]

\* a * 2^s
bigShl(a, s) ==
  IF a = <<>> THEN <<>>
  ELSE [i \in 1..(s \div 15) |-> 0] \o bigMulSmall(a, 2 ^ (s % 15), 0)

\* floor(a / 2^s)
bigShr(a, s) ==
  IF Len(a) <= s \div 15 THEN <<>>
  ELSE bigDivSmall(SubSeq(a, s \div 15 + 1, Len(a)), 2 ^ (s % 15)).q

\* the number of binary digits of n and of a
RECURSIVE bitsOf(_)
bitsOf(n) == IF n = 0 THEN 0 ELSE 1 + bitsOf(n \div 2)
bigBits(a) == IF a = <<>> THEN 0 ELSE (Len(a) - 1) * 15 + bitsOf(a[Len(a)])

\* a / 2^s rounded to the nearest integer, a tie to the even one
bigShrRound(a, s) ==
  LET q == bigShr(a, s)
      twice == bigShl(bigSub(a, bigShl(q, s)), 1)
      c == bigCmp(twice, bigShl(<<1>>, s))
      odd == q # <<>> /\ Head(q) % 2 = 1
  IN  IF c > 0 \/ (c = 0 /\ odd) THEN bigAdd(q, <<1>>) ELSE q

NaN == [nan |-> TRUE, inf |-> FALSE, neg |-> FALSE, m |-> <<>>, e |-> 0]
Infinity(neg) == [nan |-> FALSE, inf |-> TRUE, neg |-> neg, m |-> <<>>, e |-> 0]
Zero(neg) == [nan |-> FALSE, inf |-> FALSE, neg |-> neg, m |-> <<>>, e |-> 0]

\* how many times 2 divides n (n > 0)
RECURSIVE twosIn(_)
twosIn(n) == IF n % 2 = 1 THEN 0 ELSE 1 + twosIn(n \div 2)

\* m * 2^e with the factors of two moved from m to e
oddMantissa(neg, m, e) ==
  LET low == CHOOSE i \in 1..Len(m) : m[i] # 0 /\ \A j \in 1..(i - 1) : m[j] = 0
      twos == 15 * (low - 1) + twosIn(m[low])
  IN  IF m = <<>> THEN Zero(neg)
      ELSE [nan |-> FALSE, inf |-> FALSE, neg |-> neg, m |-> bigShr(m, twos), e |-> e + twos]

\* the double nearest to m * 2^e (round to nearest, ties to even): 53 binary
\* digits, fewer below 2^-1022, and infinity from 2^1024 on
fround(neg, m, e) ==
  LET over == bigBits(m) - 53
      under == (-1074) - e
      s == IF over > under THEN over ELSE under
      r == IF s > 0 THEN bigShrRound(m, s) ELSE m
      re == IF s > 0 THEN e + s ELSE e
  IN  IF bigBits(r) + re > 1024 THEN Infinity(neg) ELSE oddMantissa(neg, r, re)

\* the double nearest to m * 10^p, the value of a decimal numeral whose
\* digits (len of them, the first not 0) are those of m
fdecimal(neg, m, len, p) ==
  IF m = <<>> THEN Zero(neg)
  ELSE IF len + p >= 310 THEN Infinity(neg)
  ELSE IF len + p <= -325 THEN Zero(neg)
  ELSE IF p >= 0 THEN fround(neg, bigMulPow10(m, p), 0)
  ELSE LET s == 4 * (-p) + 64
           d == bigDivPow10(bigShl(m, s), -p)
       IN  fround(neg, bigMulSmall(d.q, 2, IF d.cut THEN 1 ELSE 0), (-s) - 1)

\* x + y
fadd(x, y) ==
  IF x.nan \/ y.nan \/ (x.inf /\ y.inf /\ x.neg # y.neg) THEN NaN
  ELSE IF x.inf THEN x
  ELSE IF y.inf THEN y
  ELSE LET e0 == IF x.e < y.e THEN x.e ELSE y.e
           mx == bigShl(x.m, x.e - e0)
           my == bigShl(y.m, y.e - e0)
           c == bigCmp(mx, my)
       IN  IF x.neg = y.neg THEN fround(x.neg, bigAdd(mx, my), e0)
           ELSE IF c = 0 THEN Zero(FALSE)
           ELSE IF c > 0 THEN fround(x.neg, bigSub(mx, my), e0)
           ELSE fround(y.neg, bigSub(my, mx), e0)

\* x - y
fsub(x, y) == fadd(x, IF y.nan THEN y ELSE [y EXCEPT !.neg = ~y.neg])

\* x * y
fmul(x, y) ==
  IF x.nan \/ y.nan THEN NaN
  ELSE IF x.inf \/ y.inf
  THEN (IF (~x.inf /\ x.m = <<>>) \/ (~y.inf /\ y.m = <<>>) THEN NaN
        ELSE Infinity(x.neg # y.neg))
  ELSE fround(x.neg # y.neg, bigMul(x.m, y.m), x.e + y.e)

\* x ** 2, the double nearest to the square
fsquare(x) == fmul(x, x)

\* x < y
fless(x, y) ==
  IF x.nan \/ y.nan THEN FALSE
  ELSE LET d == fsub(x, y)
       IN  IF d.nan THEN FALSE ELSE d.neg /\ (d.inf \/ d.m # <<>>)

(***************************************************************************)
(* PDBLoader: parsePDB.  A line is given by the columns parsePDB reads, as  *)
(* sequences of characters: head is columns 1-6, name is substr(12, 2),    *)
(* xText, yText and zText are substr(30, 8), substr(38, 8) and             *)
(* substr(46, 8), and element is substr(76, 2) (a field is empty when the  *)
(* line is shorter).                                                       *)
(***************************************************************************)
Line(head, name, xText, yText, zText, element) ==
  [head |-> head, name |-> name, xText |-> xText, yText |-> yText, zText |-> zText,
   element |-> element]

\* String.prototype.startsWith
startsWith(s, prefix) ==
  Len(s) >= Len(prefix) /\ SubSeq(s, 1, Len(prefix)) = prefix

\* the white space of String.prototype.trim and of parseFloat: WhiteSpace and
\* LineTerminator of ECMAScript, which are the tab, the vertical tab, the
\* form feed, the blank, the no-break space, the byte order mark, the line
\* ends and the space separators of Unicode; a character that cannot be
\* written in a string here goes by the name of its code point
WhiteSpace ==
  {" ", "\t", "\n", "\r", "\f", "U+000B", "U+00A0", "U+1680", "U+2000", "U+2001",
   "U+2002", "U+2003", "U+2004", "U+2005", "U+2006", "U+2007", "U+2008", "U+2009",
   "U+200A", "U+2028", "U+2029", "U+202F", "U+205F", "U+3000", "U+FEFF"}

\* String.prototype.trim
RECURSIVE trimStart(_)
trimStart(s) == IF s # <<>> /\ Head(s) \in WhiteSpace THEN trimStart(Tail(s)) ELSE s
RECURSIVE trimEnd(_)
trimEnd(s) ==
  IF s # <<>> /\ s[Len(s)] \in WhiteSpace THEN trimEnd(SubSeq(s, 1, Len(s) - 1)) ELSE s
trim(s) == trimEnd(trimStart(s))

\* the value of a decimal digit, -1 for any other character
digit(c) ==
  CASE c = "0" -> 0 [] c = "1" -> 1 [] c = "2" -> 2 [] c = "3" -> 3 [] c = "4" -> 4
    [] c = "5" -> 5 [] c = "6" -> 6 [] c = "7" -> 7 [] c = "8" -> 8 [] c = "9" -> 9
    [] OTHER -> -1

\* the longest run of decimal digits s starts with
RECURSIVE digitRun(_)
digitRun(s) ==
  IF s # <<>> /\ digit(Head(s)) >= 0 THEN <<Head(s)>> \o digitRun(Tail(s)) ELSE <<>>

\* s without its first n characters
dropFirst(s, n) == SubSeq(s, n + 1, Len(s))

RECURSIVE dropZeros(_)
dropZeros(s) == IF s # <<>> /\ Head(s) = "0" THEN dropZeros(Tail(s)) ELSE s

\* the number a run of digits writes
RECURSIVE bigOfDigits(_, _)
bigOfDigits(s, acc) ==
  IF s = <<>> THEN acc ELSE bigOfDigits(Tail(s), bigMulSmall(acc, 10, digit(Head(s))))

\* the number a run of digits writes, or 10^6 when it is above that
RECURSIVE cappedOfDigits(_, _)
cappedOfDigits(s, acc) ==
  IF s = <<>> \/ acc >= 10 ^ 6 THEN (IF acc >= 10 ^ 6 THEN 10 ^ 6 ELSE acc)
  ELSE cappedOfDigits(Tail(s), 10 * acc + digit(Head(s)))

\* parseFloat: white space is skipped, then the longest prefix that is a
\* decimal literal is read (a sign, "Infinity" or digits with a decimal point
\* and an exponent part); NaN when there is no such prefix.  The white space
\* of the texts is the blank, the tab and the line ends.
parseFloat(s) ==
  LET t == trimStart(s)
      signed == t # <<>> /\ Head(t) \in {"+", "-"}
      neg == t # <<>> /\ Head(t) = "-"
      u == IF signed THEN Tail(t) ELSE t
      whole == digitRun(u)
      v == dropFirst(u, Len(whole))
      point == v # <<>> /\ Head(v) = "."
      frac == IF point THEN digitRun(Tail(v)) ELSE <<>>
      w == IF point THEN dropFirst(v, 1 + Len(frac)) ELSE v
      marked == w # <<>> /\ Head(w) \in {"e", "E"}
      w1 == IF marked THEN Tail(w) ELSE <<>>
      expSigned == w1 # <<>> /\ Head(w1) \in {"+", "-"}
      expNeg == w1 # <<>> /\ Head(w1) = "-"
      expDigits == digitRun(IF expSigned THEN Tail(w1) ELSE w1)
      exponent == IF expNeg THEN - cappedOfDigits(dropZeros(expDigits), 0)
                  ELSE cappedOfDigits(dropZeros(expDigits), 0)
      digits == dropZeros(whole \o frac)
  IN  IF startsWith(u, <<"I", "n", "f", "i", "n", "i", "t", "y">>) THEN Infinity(neg)
      ELSE IF whole = <<>> /\ frac = <<>> THEN NaN
      ELSE fdecimal(neg, bigOfDigits(digits, <<>>), Len(digits), exponent - Len(frac))

\* mutant of isAtomRecord: HETATM records are not read
isAtomRecord_AtomOnly(line) == startsWith(line.head, <<"A", "T", "O", "M">>)

\* parsePDB: line.startsWith('ATOM') || line.startsWith('HETATM')
isAtomRecord(line) ==
  \/ startsWith(line.head, <<"A", "T", "O", "M">>)
  \/ startsWith(line.head, <<"H", "E", "T", "A", "T", "M">>)

\* parsePDB: the element of a record, from columns 77-78 or, when those are
\* blank or missing, from the first two columns of the atom name
elementOf(line) ==
  IF trim(line.element) # <<>> THEN trim(line.element) ELSE trim(line.name)

\* the atom parsePDB pushes for a record
atomOf(line) ==
  [x |-> parseFloat(line.xText), y |-> parseFloat(line.yText),
   z |-> parseFloat(line.zText), element |-> elementOf(line)]

\* parsePDB, on the lines text.split(/\r?\n/) gives: the loop over the lines
RECURSIVE parseLines(_, _, _)
parseLines(lines, i, acc) ==
  IF i > Len(lines) THEN acc
  ELSE parseLines(lines, i + 1,
                  IF isAtomRecord(lines[i]) THEN Append(acc, atomOf(lines[i])) ELSE acc)
parsePDB(lines) == parseLines(lines, 1, <<>>)

(***************************************************************************)
(* PDBLoader: the bonds of createBallStick.  An atom is given by its       *)
(* coordinates in hundredths of a unit, as a PDB file writes them; the     *)
(* numbers createBallStick computes with are the doubles parsePDB reads    *)
(* from that.                                                              *)
(***************************************************************************)
Atom(x, y, z) == [x |-> x, y |-> y, z |-> z]

\* the number of decimal digits of n
RECURSIVE digitsIn(_)
digitsIn(n) == IF n < 10 THEN 1 ELSE 1 + digitsIn(n \div 10)

\* the double of a coordinate of k hundredths
number(k) ==
  LET size == IF k < 0 THEN - k ELSE k
  IN  fdecimal(k < 0, bigOf(size), digitsIn(size), -2)

\* createBallStick: dist2, the squared distance of two atoms
dist2(a, b) ==
  fadd(fadd(fsquare(fsub(number(a.x), number(b.x))),
            fsquare(fsub(number(a.y), number(b.y)))),
       fsquare(fsub(number(a.z), number(b.z))))

\* the squared distance of the coordinates as written, in hundredths squared
writtenDist2(a, b) ==
  (a.x - b.x) * (a.x - b.x) + (a.y - b.y) * (a.y - b.y) + (a.z - b.z) * (a.z - b.z)

\* mutant of bonded: a pair written exactly 1.8 apart is always bonded
bonded_Inclusive(a, b) == writtenDist2(a, b) <= BondLength * BondLength

\* createBallStick: dist2 < 1.8 ** 2.  The doubles are within 10^-9 of the
\* values as written, which are multiples of 10^-4, so the rounding of the
\* doubles decides only for a pair written exactly 1.8 apart.
bonded(a, b) ==
  IF writtenDist2(a, b) # BondLength * BondLength
  THEN writtenDist2(a, b) < BondLength * BondLength
  ELSE fless(dist2(a, b), fsquare(number(BondLength)))

\* createBallStick, bond creation: one cylinder for each pass of the inner
\* loop (i, then j from i + 1 on) whose pair is close enough, and none at all
\* unless atoms.length < 2000
bondsOf(as) ==
  IF Len(as) < BondCeiling
  THEN UNION { { <<i - 1, j - 1>> : j \in {k \in (i + 1)..Len(as) : bonded(as[i], as[k])} }
               : i \in 1..Len(as) }
  ELSE {}

(***************************************************************************)
(* PDBLoader: the control points of createRibbon                           *)
(***************************************************************************)
\* createRibbon: sampleStep = Math.max(1, Math.floor(atoms.length / 300))
sampleStep(n) == IF n \div RibbonSamples > 1 THEN n \div RibbonSamples ELSE 1

\* createRibbon: the atoms the loop "for (i = 0; i < n; i += sampleStep)"
\* takes, in order
\* (the loop runs for i = 0, step, 2 * step, ... while i < n, that is
\* ceil(n / step) times)
strided(n, step) == [k \in 1..((n + step - 1) \div step) |-> (k - 1) * step]

\* createRibbon: the control points, none when the group is returned empty
ribbonPointsOf(n) ==
  IF n < RibbonMinAtoms THEN <<>>
  ELSE Append(strided(n, sampleStep(n)), n - 1)

(***************************************************************************)
(* PDBLoader: the builders and loadPDB's choice of the initial one          *)
(***************************************************************************)
\* A built THREE.Group: what it renders, whether it holds Mesh objects (a
\* THREE.Points cloud does not), its uniform scale, whether its geometries and
\* materials were disposed, and the function the caller built it with.
Group(kind, mesh) ==
  [kind |-> kind, mesh |-> mesh, scale |-> One, disposed |-> FALSE, builder |-> "none"]

createBallStick(n) == Group("ball-and-stick", n > 0)
createSpaceFill(n) == Group("space-fill", n > 0)
createWireframe(n) == Group("wireframe", n > 0)
createPointCloud(n) == Group("point-cloud", FALSE)
createRibbon(n) ==
  IF n < RibbonMinAtoms THEN Group("empty", FALSE) ELSE Group("ribbon", TRUE)
createTransparentSurface(n) ==
  IF n > SurfaceCeiling THEN createWireframe(n)
  ELSE [createSpaceFill(n) EXCEPT !.kind = "transparent-surface"]

\* the function of a given name applied to an atom sequence of n atoms
Build(name, n) ==
  [ (CASE name = "createBallStick" -> createBallStick(n)
       [] name = "createSpaceFill" -> createSpaceFill(n)
       [] name = "createWireframe" -> createWireframe(n)
       [] name = "createTransparentSurface" -> createTransparentSurface(n)
       [] name = "createRibbon" -> createRibbon(n)
       [] name = "createPointCloud" -> createPointCloud(n))
    EXCEPT !.builder = name ]

\* mutant of loadPDBChoice: the largest admissible size is rejected too
loadPDBChoice_RejectAtLimit(n) ==
  IF n >= TooLargeAbove THEN "StructureTooLarge"
  ELSE IF n > PointCloudAbove THEN "createPointCloud"
  ELSE IF n > WireframeAbove THEN "createWireframe"
  ELSE "createBallStick"

\* loadPDB: the builder chosen from the atom count, or the error thrown
loadPDBChoice(n) ==
  IF n > TooLargeAbove THEN "StructureTooLarge"
  ELSE IF n > PointCloudAbove THEN "createPointCloud"
  ELSE IF n > WireframeAbove THEN "createWireframe"
  ELSE "createBallStick"

\* mutant of loadPDB: the status of the response is not looked at
loadPDB_IgnoreStatus(ok, n) ==
  IF loadPDBChoice(n) = "StructureTooLarge"
  THEN [error |-> "StructureTooLarge", n |-> n]
  ELSE [error |-> "none", n |-> n]

\* loadPDB's outcome for a fetch result: ok is res.ok, n the number of atom
\* records of the text
loadPDB(ok, n) ==
  IF ~ok THEN [error |-> "FetchFailed", n |-> n]
  ELSE IF loadPDBChoice(n) = "StructureTooLarge"
       THEN [error |-> "StructureTooLarge", n |-> n]
       ELSE [error |-> "none", n |-> n]

\* ConfinedSpaceXR.repBuilders, 0-based as in the source
repBuilders == <<"createBallStick", "createSpaceFill", "createWireframe",
                 "createTransparentSurface", "createRibbon">>
repBuilderAt(i) == repBuilders[i + 1]

\* mutant of nextRepIndex: the index is advanced without wrapping at the last
\* but one builder
nextRepIndex_SkipRibbon(i) == (i + 1) % (Len(repBuilders) - 1)

\* cycleRepresentation: the index after a next-representation command
nextRepIndex(i) == (i + 1) % Len(repBuilders)

\* ConfinedSpaceXR.disposeGroup: geometries and materials of Mesh objects are
\* disposed; a group without Mesh objects is left as it is
disposeGroup(g) == IF g.mesh THEN [g EXCEPT !.disposed = TRUE] ELSE g

\* loadPdbId: moleculeScale from the height of the new group's bounding box
scaleForHeight(height) == IF height > 0 THEN (One * One) \div height ELSE One

\* 0.01 * moleculeScale
onePercent(s) == s \div 100

\* THREE.MathUtils.lerp(x, y, t) at t = p / DURATION, for 0 <= p <= DURATION
lerp(x, y, p) == ((DURATION - p) * x + p * y) \div DURATION

\* Math.min(transitionProgress / DURATION, 1), as ticks out of DURATION
clampT(p) == IF p >= DURATION THEN DURATION ELSE p

(***************************************************************************)
(* RadialMenu                                                              *)
(***************************************************************************)
\* RadialMenu.constructor: the items every RadialMenu is built with.  The
\* constructor takes no parameter, so an item list passed to it is ignored.
RadialMenuItems(passed) == <<"Help", "Settings", "Load", "Visuals">>

\* the wrist menu's labels; init() replaces the actions, not the labels
MenuItems == RadialMenuItems(<<>>)

\* the item list showContextMenu passes to the constructor
ContextItemsPassed == <<"Info", "Center", "Hide">>

\* RadialMenu.getItemCount
getItemCount == Len(MenuItems)

\* a stick deflection, in hundredths of full deflection
Stick(x, y) == [x |-> x, y |-> y]

\* mutant of stickHover: the dead zone is the square of the locomotion test
stickHover_SquareDeadZone(st) ==
  IF (st.x >= Dead \/ st.x <= -Dead) \/ (st.y >= Dead \/ st.y <= -Dead)
  THEN IF st.x >= 0 /\ st.y > 0 THEN 0
       ELSE IF st.x > 0 /\ st.y <= 0 THEN 1
       ELSE IF st.x <= 0 /\ st.y < 0 THEN 2
       ELSE 3
  ELSE -1

\* animate, thumbstick hover: -1 inside the dead zone, else
\* floor(norm / seg) for angle = atan2(x, y), norm = (angle + 2 pi) % (2 pi)
\* and seg = 2 pi / 4: the quadrant of the deflection, clockwise from "up"
stickHover(st) ==
  IF st.x * st.x + st.y * st.y > Dead * Dead
  THEN IF st.x >= 0 /\ st.y > 0 THEN 0
       ELSE IF st.x > 0 /\ st.y <= 0 THEN 1
       ELSE IF st.x <= 0 /\ st.y < 0 THEN 2
       ELSE 3
  ELSE -1

\* mutant of selectedItem: the first item is run whatever wedge is hovered
selectedItem_First(items, hover) ==
  IF hover # -1 THEN <<items[1]>> ELSE <<>>

\* RadialMenu.select: the label of the item whose action is invoked
selectedItem(items, hover) ==
  IF hover # -1 THEN <<items[hover + 1]>> ELSE <<>>

\* what an item's action can be: the logging default the constructor gives,
\* and the three kinds of action init() installs
ActionIds == {"console.log", "panels.toggle", "cycleRepresentation", "load"}

\* RadialMenu.items as the constructor leaves it: addItem for each label
NewItems ==
  [i \in 1..Len(RadialMenuItems(<<>>)) |->
     [label |-> RadialMenuItems(<<>>)[i], action |-> "console.log"]]

\* items.find((it) => it.label === label): the index of the first item with
\* that label, 0 when there is none
findItem(its, label) ==
  IF \E i \in 1..Len(its) : its[i].label = label
  THEN CHOOSE i \in 1..Len(its) :
         /\ its[i].label = label
         /\ \A j \in 1..(i - 1) : its[j].label # label
  ELSE 0

\* mutant of setAction: the action is given to every item
setAction_EveryItem(its, label, action) ==
  IF findItem(its, label) = 0 THEN its
  ELSE [i \in 1..Len(its) |-> [its[i] EXCEPT !.action = action]]

\* RadialMenu.setAction(label, action)
setAction(its, label, action) ==
  IF findItem(its, label) = 0 THEN its
  ELSE [its EXCEPT ![findItem(its, label)].action = action]

\* the wedges built by buildMesh, by userData.index
Wedges == 0..(getItemCount - 1)

\* the colours a wedge's material is set to: by buildMesh and on losing the
\* hover, and on gaining it
BaseColor == "0x2266aa"
HighlightColor == "0xffaa00"

\* a RadialMenu as constructed
NewRadialMenu == [hoverIndex |-> -1, color |-> [w \in Wedges |-> BaseColor]]

\* mutant of setHover: the wedge hovered before keeps the highlight
setHover_NoReset(m, index) ==
  IF m.hoverIndex = index THEN m
  ELSE [hoverIndex |-> index,
        color |-> IF index # -1 THEN [m.color EXCEPT ![index] = HighlightColor]
                  ELSE m.color]

\* RadialMenu.setHover(index) on a menu m = [hoverIndex, color]
setHover(m, index) ==
  IF m.hoverIndex = index THEN m
  ELSE LET reset == IF m.hoverIndex # -1
                    THEN [m.color EXCEPT ![m.hoverIndex] = BaseColor]
                    ELSE m.color
       IN  [hoverIndex |-> index,
            color |-> IF index # -1 THEN [reset EXCEPT ![index] = HighlightColor]
                      ELSE reset]

(***************************************************************************)
(* The long-press machine of the right-hand trigger                        *)
(***************************************************************************)
\* the fields the machine works on
Trig == [held |-> triggerHeld, dur |-> triggerHoldDuration, menu |-> contextMenu,
         visible |-> contextMenuVisible, inScene |-> ctxInScene, spawns |-> 0]

NoContextMenu == [defined |-> FALSE, hoverIndex |-> -1]

\* mutant of showContextMenu: the menu is spawned and the flag is not set
showContextMenu_NoFlag(t) ==
  [t EXCEPT !.inScene = (IF t.menu.defined THEN t.inScene - 1 ELSE t.inScene) + 1,
            !.menu = [defined |-> TRUE, hoverIndex |-> -1],
            !.spawns = t.spawns + 1]

\* ConfinedSpaceXR.showContextMenu
showContextMenu(t) ==
  [t EXCEPT !.inScene = (IF t.menu.defined THEN t.inScene - 1 ELSE t.inScene) + 1,
            !.menu = [defined |-> TRUE, hoverIndex |-> -1],
            !.visible = TRUE,
            !.spawns = t.spawns + 1]

\* animate: the condition under which a held trigger spawns the context menu
longPressFires(visible, dur) == ~visible /\ dur > HOLD_TIME

\* animate, long-press detection, for a frame of time delta; isDown is
\* src.gamepad.buttons[0].pressed of the right controller
longPress(t, hasRight, isDown, delta) ==
  IF hasRight /\ t.held
  THEN IF isDown
       THEN LET t1 == [t EXCEPT !.dur = t.dur + delta]
            IN  IF longPressFires(t1.visible, t1.dur) THEN showContextMenu(t1) ELSE t1
       ELSE [t EXCEPT !.held = FALSE, !.dur = 0]
  ELSE t

\* selectstart handler, the long-press timer
selectstartTrigger(t, isRight) ==
  IF isRight THEN [t EXCEPT !.held = TRUE, !.dur = 0] ELSE t

\* mutant of selectendTrigger: the hold ends but the context menu stays
selectendTrigger_KeepsMenu(t, isRight) ==
  IF isRight THEN [t EXCEPT !.held = FALSE, !.dur = 0] ELSE t

\* mutant of selectendTrigger: the context menu is closed but the hold goes on
selectendTrigger_StillHeld(t, isRight) ==
  IF isRight
  THEN IF t.visible /\ t.menu.defined
       THEN [t EXCEPT !.inScene = t.inScene - 1, !.menu = NoContextMenu, !.visible = FALSE]
       ELSE t
  ELSE t

\* selectend handler
selectendTrigger(t, isRight) ==
  IF isRight
  THEN LET t1 == IF t.visible /\ t.menu.defined
                 THEN [t EXCEPT !.inScene = t.inScene - 1, !.menu = NoContextMenu,
                                !.visible = FALSE]
                 ELSE t
       IN  [t1 EXCEPT !.held = FALSE, !.dur = 0]
  ELSE t

\* selectend handler: the context menu's select(), before it is discarded
selectendInvokes(t, isRight) ==
  IF isRight /\ t.visible /\ t.menu.defined
  THEN selectedItem(RadialMenuItems(ContextItemsPassed), t.menu.hoverIndex)
  ELSE <<>>

\* the machine's fields written back
SetTrig(t) ==
  /\ triggerHeld' = t.held
  /\ triggerHoldDuration' = t.dur
  /\ contextMenu' = t.menu
  /\ contextMenuVisible' = t.visible
  /\ ctxInScene' = t.inScene

(***************************************************************************)
(* Inputs                                                                  *)
(***************************************************************************)
Controllers == {1, 2}
Deltas == 1..MaxDelta
\* The structures a fetch can deliver: one of every size class of the loader,
\* each with its atom count and the height of its bounding box (thousandths).
Structure(n, height) == [n |-> n, height |-> height]
Structures == {Structure(1, 0), Structure(WireframeAbove + 1, 500),
               Structure(PointCloudAbove + 1, 2000), Structure(TooLargeAbove + 1, 500)}

\* what the devices report in one frame: the mouse ray, each controller's ray
\* and each controller's stick
FrameInput(m, r1, r2, s1, s2) == [mouse |-> m, ray |-> <<r1, r2>>, stick |-> <<s1, s2>>]
NullInput == FrameInput(Miss, Miss, Miss, Stick(0, 0), Stick(0, 0))

(***************************************************************************)
(* Initial state: after init()                                             *)
(***************************************************************************)
NotLoaded == [error |-> "not called", kind |-> "none"]
NoResolve == [req |-> 0, ok |-> TRUE, n |-> -1, error |-> "none"]
NoCall == [op |-> "none", x |-> 0, y |-> 0, index |-> -1]

InitScene ==
  /\ pressSelect = "none"
  /\ panelVisible = [p \in PanelIds |-> FALSE]
  /\ hoverClose = [p \in PanelIds |-> FALSE]
  /\ qlHoverIndex = -1
  /\ menuHoverIndex = -1
  /\ menuVisible = TRUE
  /\ menuObjVisible = TRUE
  /\ overlayShown = FALSE
  /\ isPresenting = FALSE
  /\ inputSource = [c \in Controllers |-> NoSource]
  /\ leftController = 0
  /\ rightController = 0
  /\ pressed = [c \in Controllers |-> FALSE]
  /\ selecting = [c \in Controllers |-> FALSE]
  /\ triggerHeld = FALSE
  /\ triggerHoldDuration = 0
  /\ contextMenu = NoContextMenu
  /\ contextMenuVisible = FALSE
  /\ ctxInScene = 0
  /\ moleculeGroup = 0
  /\ atoms = -1
  /\ repIndex = 0
  /\ moleculeScale = One
  /\ transitionOld = 0
  /\ transitionNew = 0
  /\ transitionProgress = 0
  /\ groups = <<>>
  /\ scene = {}
  /\ pending = {}
  /\ nextReq = 1
  /\ mgrLast = [op |-> "none", arg |-> "none", pre |-> {}]
  /\ mgrPrev = [op |-> "none", arg |-> "none", pre |-> {}]
  /\ invoked = <<>>
  /\ spawned = 0
  /\ heldTicks = 0
  /\ afterFrame = FALSE
  /\ styleHist = <<>>
  /\ resolved = NoResolve
  /\ hoverIndex = NewRadialMenu.hoverIndex
  /\ wedgeColor = NewRadialMenu.color
  /\ menuCall = NoCall
  /\ frameInput = NullInput
  /\ itemList = NewItems
  /\ setActionCall = [label |-> "none", action |-> "none"]

\* no text has been given to parsePDB
NothingParsed == pdbLines = <<>> /\ parsed = <<>> /\ parsedDone = FALSE

\* createBallStick has not been called on its own
NothingBonded == bondAtoms = <<>> /\ bonds = {} /\ bondsDone = FALSE

\* the peers of the shared session (the scene of peer 1 is the one modelled)
Peers == 1..3
Me == 1

\* no peer is connected to the relay
NothingRelayed ==
  /\ readyState = [p \in Peers |-> "absent"]
  /\ toServer = [p \in Peers |-> <<>>]
  /\ toPeer = [p \in Peers |-> <<>>]
  /\ peerLoads = [p \in Peers |-> <<>>]
  /\ sentCount = 0

\* createRibbon has not been called on its own
NothingSampled == ribbonAtoms = 0 /\ ribbonPoints = <<>> /\ ribbonDone = FALSE

\* no fetch has been made
NothingFetched == fetchOk = TRUE /\ fetched = 0 /\ loaded = NotLoaded

Init ==
  /\ InitScene
  /\ NothingFetched
  /\ NothingParsed
  /\ NothingBonded
  /\ NothingSampled
  /\ NothingRelayed

(***************************************************************************)
(* ConfinedSpaceXR: loading, cycling, hiding                               *)
(***************************************************************************)
SetScale(gs, id, v) == IF id = 0 THEN gs ELSE [gs EXCEPT ![id].scale = v]

\* A group no field refers to any more can be neither read nor scaled again:
\* the model keeps its place in the scene graph and whether it was disposed,
\* and forgets the rest.
Forget(gs, live) ==
  [i \in DOMAIN gs |->
     IF i \in live THEN gs[i]
     ELSE [gs[i] EXCEPT !.kind = "unreferenced", !.scale = 0, !.builder = "none"]]
Dispose(gs, id) == IF id = 0 THEN gs ELSE [gs EXCEPT ![id] = disposeGroup(gs[id])]

\* mutant of RequestLoad: a new request abandons the outstanding ones
RequestLoad_CancelsPending ==
  /\ nextReq <= MaxLoads
  /\ pending' = {nextReq}
  /\ nextReq' = nextReq + 1

\* loadPdbId up to its await: the fetch is outstanding
RequestLoad ==
  /\ nextReq <= MaxLoads
  /\ pending' = pending \cup {nextReq}
  /\ nextReq' = nextReq + 1

\* loadPdbId called (by the quick-load panel or the network, or by the
\* overlay once it is hidden)
LoadPdbId ==
  /\ RequestLoad
  /\ invoked' = <<>>
  /\ afterFrame' = FALSE
  /\ resolved' = NoResolve
  /\ UNCHANGED <<panelVars, menuVars, xrVars, trigVars, molVars, mgrHist, spawned, heldTicks,
                 styleHist, pureVars>>

\* loadPdbId after its await, for the fetch of request r: ok is res.ok, n the
\* number of atom records, height the height of the built group's bounding box
LoadPdbIdResume(r, ok, n, height) ==
  /\ r \in pending
  /\ pending' = pending \ {r}
  /\ LET res == loadPDB(ok, n)
     IN  IF res.error # "none"
         THEN UNCHANGED molVars
         ELSE LET id == Len(groups) + 1
                  s == scaleForHeight(height)
                  built == [Build(loadPDBChoice(n), n) EXCEPT !.scale = s]
              IN  /\ id <= MaxGroups
                  /\ groups' = Forget(Append(Dispose(groups, moleculeGroup), built),
                                       {id, transitionOld, transitionNew})
                  /\ scene' = (scene \ {moleculeGroup}) \cup {id}
                  /\ moleculeGroup' = id
                  /\ atoms' = n
                  /\ repIndex' = 0
                  /\ moleculeScale' = s
                  /\ UNCHANGED <<transitionOld, transitionNew, transitionProgress>>
  /\ styleHist' = IF loadPDB(ok, n).error = "none" THEN <<>> ELSE styleHist
  /\ invoked' = <<>>
  /\ afterFrame' = FALSE
  /\ resolved' = [req |-> r, ok |-> ok, n |-> IF ok THEN n ELSE -1,
                  error |-> loadPDB(ok, n).error]
  /\ UNCHANGED <<panelVars, menuVars, xrVars, trigVars, nextReq, mgrHist, spawned, heldTicks,
                 pureVars>>

\* mutant of hasAtoms: the guard of cycleRepresentation always passes
hasAtoms_Always(a) == TRUE

\* cycleRepresentation: this.atoms is set (the guard returns when it is not)
hasAtoms(a) == a # -1

\* cycleRepresentation, as a change of the molecule's fields
cycleRepresentation ==
  IF ~hasAtoms(atoms)
  THEN UNCHANGED molVars
  ELSE LET id == Len(groups) + 1
           idx == nextRepIndex(repIndex)
           newGroup == [Build(repBuilderAt(idx), atoms)
                          EXCEPT !.scale = onePercent(moleculeScale)]
       IN  /\ id <= MaxGroups
           /\ repIndex' = idx
           /\ groups' = Forget(Append(groups, newGroup), {id, moleculeGroup})
           /\ scene' = scene \cup {id}
           /\ transitionOld' = moleculeGroup
           /\ transitionNew' = id
           /\ transitionProgress' = 0
           /\ moleculeGroup' = id
           /\ UNCHANGED <<atoms, moleculeScale>>

\* the style displayed before a next-representation command is remembered,
\* for the last five commands given in a row on a loaded molecule
cycleObserved ==
  styleHist' =
    IF atoms = -1 THEN styleHist
    ELSE LET before == IF moleculeGroup = 0 THEN "none" ELSE groups[moleculeGroup].kind
             h == Append(styleHist, before)
         IN  IF Len(h) > Len(repBuilders) THEN Tail(h) ELSE h

\* the next-representation command (the Visuals action)
CycleRepresentation ==
  /\ cycleRepresentation
  /\ cycleObserved
  /\ invoked' = <<"Visuals">>
  /\ afterFrame' = FALSE
  /\ resolved' = NoResolve
  /\ UNCHANGED <<panelVars, menuVars, xrVars, trigVars, loadVars, mgrHist, spawned, heldTicks,
                 pureVars>>

\* the Hide action built by showContextMenu
\* mutant of hideFields: the group is forgotten and the atoms are kept
hideFields_KeepsAtoms(a) == [moleculeGroup |-> 0, atoms |-> a]

\* the Hide action: this.moleculeGroup = undefined; this.atoms = undefined
hideFields(a) == [moleculeGroup |-> 0, atoms |-> -1]

HideAction ==
  /\ IF moleculeGroup # 0
     THEN /\ groups' = Forget(Dispose(groups, moleculeGroup),
                               {transitionOld, transitionNew})
          /\ scene' = scene \ {moleculeGroup}
          /\ moleculeGroup' = hideFields(atoms).moleculeGroup
          /\ atoms' = hideFields(atoms).atoms
          /\ UNCHANGED <<repIndex, moleculeScale, transitionOld, transitionNew,
                         transitionProgress>>
     ELSE UNCHANGED molVars
  /\ styleHist' = IF moleculeGroup # 0 THEN <<>> ELSE styleHist
  /\ invoked' = <<"Hide">>
  /\ afterFrame' = FALSE
  /\ resolved' = NoResolve
  /\ UNCHANGED <<panelVars, menuVars, xrVars, trigVars, loadVars, mgrHist, spawned, heldTicks,
                 pureVars>>

(***************************************************************************)
(* ConfinedSpaceXR.animate: one display frame                              *)
(***************************************************************************)
\* mutant of transitionDone: a transition completes only after the duration
\* has been exceeded
transitionDone_Late(p) == p > DURATION

\* animate: t >= 1, for t = Math.min(transitionProgress / DURATION, 1)
transitionDone(p) == clampT(p) >= DURATION

\* animate: transitionNew.scale.set(1, 1, 1) on completion
snapScale(s) == One

\* mutant of elapsedAfter: the frame's time delta is not added
elapsedAfter_Stalled(progress, delta) == progress

\* animate: this.transitionProgress += delta
elapsedAfter(progress, delta) == progress + delta

\* animate, "handle representation transition"
animateTransition(delta) ==
  IF transitionNew # 0
  THEN LET p == elapsedAfter(transitionProgress, delta)
           t == clampT(p)
           scaleIn == lerp(onePercent(moleculeScale), moleculeScale, t)
           scaleOut == lerp(moleculeScale, onePercent(moleculeScale), t)
           g1 == SetScale(SetScale(groups, transitionNew, scaleIn), transitionOld, scaleOut)
       IN  /\ transitionProgress' = p
           /\ IF transitionDone(p)
              THEN /\ scene' = scene \ {transitionOld}
                   /\ transitionOld' = 0
                   /\ groups' = Forget(SetScale(g1, transitionNew, snapScale(moleculeScale)),
                                        {moleculeGroup})
                   /\ transitionNew' = 0
              ELSE /\ groups' = g1
                   /\ UNCHANGED <<scene, transitionOld, transitionNew>>
           /\ UNCHANGED <<moleculeGroup, atoms, repIndex, moleculeScale>>
  ELSE UNCHANGED molVars

\* the rays handed to handlePointer during the frame, in order: under
\* "hover detection only when menu visible" the mouse ray and then (in XR) each
\* controller's ray; under "VR locomotion" (in XR) each controller's ray again
raysApplied(inp) ==
  (IF menuVisible
   THEN <<inp.mouse>> \o (IF isPresenting THEN inp.ray ELSE <<>>)
   ELSE <<>>)
  \o (IF isPresenting THEN inp.ray ELSE <<>>)

\* the indices handed to this.menu.setHover during the frame, in order: the
\* wedge under each ray and, in the locomotion loop, the stick of the left
\* controller right after that controller's ray; a controller whose input
\* source is undefined or has no gamepad is passed over after its ray
menuHoverUpdates(inp) ==
  LET stickUpd(c) ==
        IF inputSource[c].gamepad /\ menuVisible /\ c = leftController
        THEN <<stickHover(inp.stick[c])>> ELSE <<>>
  IN  (IF menuVisible
       THEN <<inp.mouse.menu>>
            \o (IF isPresenting THEN <<inp.ray[1].menu, inp.ray[2].menu>> ELSE <<>>)
       ELSE <<>>)
      \o (IF isPresenting
          THEN <<inp.ray[1].menu>> \o stickUpd(1) \o <<inp.ray[2].menu>> \o stickUpd(2)
          ELSE <<>>)

\* RadialMenu.setHover applied to a sequence of indices: the last one stays
hoverAfter(h, updates) == IF updates = <<>> THEN h ELSE updates[Len(updates)]

\* the controller held in the right hand, 0 when none is connected
RightHand ==
  IF \E c \in Controllers : inputSource[c].handedness = "right"
  THEN CHOOSE c \in Controllers : inputSource[c].handedness = "right" ELSE 0

Min(a, b) == IF a < b THEN a ELSE b

Animate(delta, inp) ==
  LET isDown == rightController # 0 /\ inputSource[rightController].gamepad
                /\ pressed[rightController]
      rays == raysApplied(inp)
      last == rays[Len(rays)]
      t1 == longPress(Trig, rightController # 0, isDown, delta)
      t2 == IF rays # <<>> /\ panelVisible["quickLoad"] /\ t1.visible /\ t1.menu.defined
            THEN [t1 EXCEPT !.menu.hoverIndex = last.ctx] ELSE t1
  IN  /\ (triggerHeld /\ isDown) => triggerHoldDuration + delta <= MaxHold
      /\ SetTrig(t2)
      /\ spawned' = spawned + t2.spawns
      /\ animateTransition(delta)
      /\ menuHoverIndex' = hoverAfter(menuHoverIndex, menuHoverUpdates(inp))
      /\ hoverClose' = IF rays = <<>> THEN hoverClose
                       ELSE handlePointerClose(panelVisible, hoverClose, last)
      /\ qlHoverIndex' = IF rays = <<>> THEN qlHoverIndex
                         ELSE handlePointerQuickLoad(panelVisible, qlHoverIndex, last)
      /\ heldTicks' = IF isDown THEN Min(heldTicks + delta, MaxHold) ELSE heldTicks
      /\ invoked' = <<>>
      /\ afterFrame' = TRUE
      /\ resolved' = NoResolve
      /\ UNCHANGED <<panelVisible, menuVisible, menuObjVisible, overlayShown, xrVars,
                     loadVars, mgrHist, styleHist, fetchVars, radialVars, itemVars,
                     parseVars, bondVars, ribbonVars, relayVars, pressSelect>>

(***************************************************************************)
(* The representation pipeline: loads, next-representation commands, the   *)
(* Hide action and frames                                                  *)
(***************************************************************************)
Frame == \E delta \in Deltas : Animate(delta, NullInput) /\ UNCHANGED frameInput

LoadResolves ==
  \E r \in pending, ok \in BOOLEAN, st \in Structures :
    LoadPdbIdResume(r, ok, st.n, st.height)

Next == LoadPdbId \/ LoadResolves \/ CycleRepresentation \/ HideAction \/ Frame

Spec == Init /\ [][Next]_vars

\* the same for at most MaxLiveLoads loads, with the animation loop
\* (setAnimationLoop) going on calling animate
LiveLoadPdbId == nextReq <= MaxLiveLoads /\ LoadPdbId

NextLive == LiveLoadPdbId \/ LoadResolves \/ CycleRepresentation \/ HideAction \/ Frame

SpecLive == Init /\ [][NextLive]_vars /\ WF_vars(Frame)

(***************************************************************************)
(* The XR session: controllers, their triggers and grips, the wrist menu   *)
(***************************************************************************)
\* the item whose action this.menu.select() runs, as a sequence of 0 or 1 label
menuSelected == selectedItem(MenuItems, menuHoverIndex)

\* The Load action in XR calls panels.toggle('pdbInput'): getPanel has no such
\* panel, and reading object3d of undefined throws a TypeError.
LoadActionThrows ==
  menuSelected = <<"Load">> /\ isPresenting /\ getPanel("pdbInput") = "undefined"

\* this.menu.select(): the action of the hovered item, as set in init()
MenuSelect ==
  /\ panelVisible' = IF menuSelected = <<"Help">> THEN toggle(panelVisible, "help")
                     ELSE IF menuSelected = <<"Settings">>
                          THEN toggle(panelVisible, "settings")
                          ELSE panelVisible
  /\ overlayShown' = IF menuSelected = <<"Load">> /\ ~isPresenting THEN TRUE
                     ELSE overlayShown
  /\ IF menuSelected = <<"Visuals">>
     THEN cycleRepresentation /\ cycleObserved
     ELSE UNCHANGED <<molVars, styleHist>>

\* click on the canvas
Click ==
  /\ MenuSelect
  /\ invoked' = menuSelected
  /\ afterFrame' = FALSE
  /\ UNCHANGED <<hoverClose, qlHoverIndex, menuHoverIndex, menuVisible, menuObjVisible,
                 xrVars, trigVars, loadVars, mgrHist, spawned, heldTicks, resolved, pureVars>>

\* the texts tried in the overlay's input: none, a blank, and an id between
\* blanks
OverlayTexts == {<<>>, <<" ">>, <<" ", "1", "c", "r", "n", " ">>}

\* click on the Load button of the overlay while it is shown: when the text
\* of the input is not blank the overlay is hidden and loadPdbId is called
OverlayLoad(text) ==
  /\ overlayShown
  /\ IF trim(text) # <<>>
     THEN overlayShown' = FALSE /\ RequestLoad
     ELSE UNCHANGED <<overlayShown, loadVars>>
  /\ invoked' = <<>>
  /\ afterFrame' = FALSE
  /\ UNCHANGED <<panelVars, menuHoverIndex, menuVisible, menuObjVisible, xrVars, trigVars,
                 molVars, mgrHist, spawned, heldTicks, styleHist, resolved, pureVars>>

\* mutant of toggleMenu: the flag flips and the object stays shown
toggleMenu_FlagOnly(visible) == [menuVisible |-> ~visible, objVisible |-> TRUE]

\* toggleMenu: the flag flips and the menu object follows it
toggleMenu(visible) == [menuVisible |-> ~visible, objVisible |-> ~visible]

\* keydown KeyM: toggleMenu
KeyM ==
  /\ menuVisible' = toggleMenu(menuVisible).menuVisible
  /\ menuObjVisible' = toggleMenu(menuVisible).objVisible
  /\ invoked' = <<>>
  /\ afterFrame' = FALSE
  /\ UNCHANGED <<panelVars, menuHoverIndex, overlayShown, xrVars, trigVars, molVars,
                 loadVars, mgrHist, spawned, heldTicks, styleHist, resolved, pureVars>>

\* the XR session starts
SessionStart ==
  /\ ~isPresenting
  /\ isPresenting' = TRUE
  /\ invoked' = <<>>
  /\ afterFrame' = FALSE
  /\ UNCHANGED <<panelVars, menuVars, inputSource, leftController, rightController, pressed,
                 selecting, trigVars, molVars, loadVars, mgrHist, spawned, heldTicks,
                 styleHist, resolved, pureVars>>

\* 'connected' on controller c, for an input source of handedness h, with a
\* gamepad or without (XRInputSource.gamepad may be null); the device
\* presents at most one input source for each hand at a time
Connected(c, h, g) ==
  /\ isPresenting
  /\ inputSource[c] = NoSource
  /\ \A d \in Controllers : inputSource[d].handedness # h
  /\ inputSource' = [inputSource EXCEPT ![c] = Source(h, g)]
  /\ IF h = "left"
     THEN /\ leftController' = c
          /\ menuObjVisible' = FALSE
          /\ menuVisible' = FALSE
          /\ UNCHANGED rightController
     ELSE /\ rightController' = IF h = "right" THEN c ELSE rightController
          /\ UNCHANGED <<leftController, menuObjVisible, menuVisible>>
  /\ invoked' = <<>>
  /\ afterFrame' = FALSE
  /\ UNCHANGED <<panelVars, menuHoverIndex, overlayShown, isPresenting, pressed, selecting,
                 trigVars, molVars, loadVars, mgrHist, spawned, heldTicks, styleHist,
                 resolved, pureVars>>

\* 'disconnected' on controller c: its input source is forgotten; the
\* controller stays the left or the right one, and its gamepad is no longer
\* read
Disconnected(c) ==
  /\ inputSource[c] # NoSource
  /\ inputSource' = [inputSource EXCEPT ![c] = NoSource]
  /\ invoked' = <<>>
  /\ afterFrame' = FALSE
  /\ UNCHANGED <<panelVars, menuVars, isPresenting, leftController, rightController, pressed,
                 selecting, trigVars, molVars, loadVars, mgrHist, spawned, heldTicks,
                 styleHist, resolved, pureVars>>

\* 'squeezestart' on controller c: the left grip shows the wrist menu
SqueezeStart(c) ==
  /\ isPresenting
  /\ inputSource[c] # NoSource
  /\ IF c = leftController
     THEN menuVisible' = TRUE /\ menuObjVisible' = TRUE
     ELSE UNCHANGED <<menuVisible, menuObjVisible>>
  /\ invoked' = <<>>
  /\ afterFrame' = FALSE
  /\ UNCHANGED <<panelVars, menuHoverIndex, overlayShown, xrVars, trigVars, molVars,
                 loadVars, mgrHist, spawned, heldTicks, styleHist, resolved, pureVars>>

\* 'squeezeend' on controller c: letting the left grip go hides the wrist menu
SqueezeEnd(c) ==
  /\ isPresenting
  /\ inputSource[c] # NoSource
  /\ IF c = leftController
     THEN menuVisible' = FALSE /\ menuObjVisible' = FALSE
     ELSE UNCHANGED <<menuVisible, menuObjVisible>>
  /\ invoked' = <<>>
  /\ afterFrame' = FALSE
  /\ UNCHANGED <<panelVars, menuHoverIndex, overlayShown, xrVars, trigVars, molVars,
                 loadVars, mgrHist, spawned, heldTicks, styleHist, resolved, pureVars>>

\* 'selectstart' on controller c: the trigger goes down. The handler begins
\* with this.panels.handleSelect(), a method the class UIPanelManager does
\* not have: the call throws a TypeError and the handler ends there, before
\* the wrist menu's select and before triggerHeld is set
SelectStart(c) ==
  /\ isPresenting
  /\ inputSource[c] # NoSource
  /\ ~pressed[c] /\ ~selecting[c]
  /\ pressed' = [pressed EXCEPT ![c] = TRUE]
  /\ selecting' = [selecting EXCEPT ![c] = TRUE]
  /\ invoked' = <<>>
  /\ afterFrame' = FALSE
  /\ spawned' = IF c = rightController THEN 0 ELSE spawned
  /\ heldTicks' = IF c = rightController THEN 0 ELSE heldTicks
  /\ UNCHANGED <<panelVars, menuVars, isPresenting, inputSource, leftController,
                 rightController, trigVars, molVars, loadVars, mgrHist, styleHist,
                 resolved, pureVars>>

\* the 'selectstart' handler with a panel manager that has the handleSelect
\* the handler calls: a select consumed by the open panel shows the wrist
\* menu, any other select goes to the wrist menu when it is visible, and the
\* right trigger then starts a hold
SelectStartWithPanels(c) ==
  LET p == handleSelectTarget(panelVisible)
      consumed == p # "undefined" /\ panelSelectConsumed(hoverClose, p)
      loads == p # "undefined" /\ quickLoadSelects(hoverClose, qlHoverIndex, p)
      afterPanel == IF p = "undefined" THEN panelVisible
                    ELSE panelSelect(panelVisible, hoverClose, qlHoverIndex, p)
      selects == ~consumed /\ menuVisible
      thrown == selects /\ LoadActionThrows
      t == IF thrown THEN Trig ELSE selectstartTrigger(Trig, c = rightController)
  IN  /\ isPresenting
      /\ inputSource[c] # NoSource
      /\ ~pressed[c] /\ ~selecting[c]
      /\ IF consumed
         THEN /\ panelVisible' = IF loads THEN onQuickLoadSelectPanels(afterPanel)
                                 ELSE afterPanel
              /\ IF loads THEN RequestLoad ELSE UNCHANGED loadVars
              /\ menuVisible' = TRUE
              /\ menuObjVisible' = TRUE
              /\ invoked' = <<>>
              /\ UNCHANGED <<overlayShown, molVars, styleHist>>
         ELSE IF selects
              THEN /\ MenuSelect
                   /\ invoked' = menuSelected
                   /\ UNCHANGED <<loadVars, menuVisible, menuObjVisible>>
              ELSE /\ invoked' = <<>>
                   /\ UNCHANGED <<panelVisible, overlayShown, molVars, styleHist, loadVars,
                                  menuVisible, menuObjVisible>>
      /\ SetTrig(t)
      /\ pressed' = [pressed EXCEPT ![c] = TRUE]
      /\ selecting' = [selecting EXCEPT ![c] = TRUE]
      /\ spawned' = IF c = rightController THEN 0 ELSE spawned
      /\ heldTicks' = IF c = rightController THEN 0 ELSE heldTicks
      /\ afterFrame' = FALSE
      /\ UNCHANGED <<hoverClose, qlHoverIndex, menuHoverIndex, isPresenting, inputSource,
                     leftController, rightController, mgrHist, resolved, selectRest>>

\* the gamepad of controller c reports its trigger up (selectend is still to
\* be delivered)
ButtonRelease(c) ==
  /\ pressed[c] /\ selecting[c]
  /\ pressed' = [pressed EXCEPT ![c] = FALSE]
  /\ UNCHANGED <<panelVars, menuVars, isPresenting, inputSource, leftController,
                 rightController, selecting, trigVars, molVars, loadVars, mgrHist, obsVars,
                 styleHist, resolved, pureVars>>

\* 'selectend' on controller c: the context menu's select() runs one of the
\* actions the RadialMenu constructor gave it, which only log
SelectEnd(c) ==
  /\ selecting[c]
  /\ SetTrig(selectendTrigger(Trig, c = rightController))
  /\ invoked' = selectendInvokes(Trig, c = rightController)
  /\ pressed' = [pressed EXCEPT ![c] = FALSE]
  /\ selecting' = [selecting EXCEPT ![c] = FALSE]
  /\ afterFrame' = FALSE
  /\ UNCHANGED <<panelVars, menuVars, isPresenting, inputSource, leftController,
                 rightController, molVars, loadVars, mgrHist, spawned, heldTicks, styleHist,
                 resolved, pureVars>>

\* what the devices report in a frame: nothing pointed at, every ray on wedge
\* k of the wrist menu, every ray on the close button of the open panel, or
\* both sticks pushed up or to the right
PointAt(k) == FrameInput(Ray(k, FALSE, -1, k), Ray(k, FALSE, -1, k), Ray(k, FALSE, -1, k),
                         Stick(0, 0), Stick(0, 0))
PointAtClose == FrameInput(Ray(-1, TRUE, -1, -1), Ray(-1, TRUE, -1, -1),
                           Ray(-1, TRUE, -1, -1), Stick(0, 0), Stick(0, 0))
Sticks(x, y) == FrameInput(Miss, Miss, Miss, Stick(x, y), Stick(x, y))
FrameInputs ==
  {NullInput, PointAtClose, Sticks(0, 100), Sticks(100, 0)}
    \cup {PointAt(k) : k \in 0..(getItemCount - 1)}

InputFrame ==
  \E delta \in Deltas, inp \in FrameInputs : Animate(delta, inp) /\ UNCHANGED frameInput

NextInput ==
  \/ SessionStart
  \/ \E c \in Controllers, h \in {"left", "right"}, g \in BOOLEAN : Connected(c, h, g)
  \/ \E c \in Controllers : SelectStart(c)
  \/ \E c \in Controllers : ButtonRelease(c)
  \/ \E c \in Controllers : SelectEnd(c)
  \/ \E c \in Controllers : SqueezeStart(c)
  \/ \E c \in Controllers : SqueezeEnd(c)
  \/ KeyM
  \/ Click
  \/ InputFrame

SpecInput == Init /\ [][NextInput]_vars

\* the long press, with controllers that come and go: an input source may
\* leave in the middle of a press and another may take its place. The
\* selectstart handler is the one of a panel manager with handleSelect, the
\* only one in which a press starts a hold
LinkInputs == {NullInput, PointAt(1)}

LinkFrame ==
  \E delta \in Deltas, inp \in LinkInputs : Animate(delta, inp) /\ UNCHANGED frameInput

NextLink ==
  \/ SessionStart
  \/ \E c \in Controllers, h \in {"left", "right"}, g \in BOOLEAN : Connected(c, h, g)
  \/ \E c \in Controllers : Disconnected(c)
  \/ \E c \in Controllers : SelectStartWithPanels(c) /\ UNCHANGED pressSelect
  \/ \E c \in Controllers : ButtonRelease(c)
  \/ \E c \in Controllers : SelectEnd(c)
  \/ LinkFrame

SpecLink == Init /\ [][NextLink]_vars

(***************************************************************************)
(* The panel manager driven through its own interface                      *)
(***************************************************************************)
\* rays as the panels see them: on or off the close button, on a quick-load
\* button or on none
PanelRays == {Ray(-1, c, q, -1) : c \in BOOLEAN, q \in {-1, 0, Len(QuickLoadEntries) - 1}}

MgrRecord(op, arg) ==
  /\ mgrLast' = [op |-> op, arg |-> arg, pre |-> Visible(panelVisible)]
  /\ mgrPrev' = mgrLast

\* panels.toggle(id)
MgrToggle(id) ==
  /\ getPanel(id) # "undefined"
  /\ panelVisible' = toggle(panelVisible, id)
  /\ MgrRecord("toggle", id)
  /\ UNCHANGED <<hoverClose, qlHoverIndex, menuVars, xrVars, trigVars, molVars, loadVars,
                 obsVars, styleHist, resolved, pureVars>>

\* panels.update(): the visible panel is placed in front of the camera
MgrUpdate ==
  /\ MgrRecord("update", "none")
  /\ UNCHANGED <<panelVars, menuVars, xrVars, trigVars, molVars, loadVars,
                 obsVars, styleHist, resolved, pureVars>>

\* panels.handlePointer(raycaster)
MgrHandlePointer(ray) ==
  /\ hoverClose' = handlePointerClose(panelVisible, hoverClose, ray)
  /\ qlHoverIndex' = handlePointerQuickLoad(panelVisible, qlHoverIndex, ray)
  /\ MgrRecord("handlePointer", "none")
  /\ UNCHANGED <<panelVisible, menuVars, xrVars, trigVars, molVars, loadVars,
                 obsVars, styleHist, resolved, pureVars>>

\* a select forwarded to the visible panel; a quick-load button runs
\* onQuickLoadSelect: loadPdbId is called, the quick-load panel is closed and
\* the wrist menu restored
MgrHandleSelect ==
  LET p == handleSelectTarget(panelVisible)
  IN  /\ p # "undefined"
      /\ IF quickLoadSelects(hoverClose, qlHoverIndex, p)
         THEN /\ RequestLoad
              /\ panelVisible' = onQuickLoadSelectPanels(
                                   panelSelect(panelVisible, hoverClose, qlHoverIndex, p))
              /\ menuVisible' = TRUE
              /\ menuObjVisible' = TRUE
         ELSE /\ panelVisible' = panelSelect(panelVisible, hoverClose, qlHoverIndex, p)
              /\ UNCHANGED <<loadVars, menuVisible, menuObjVisible>>
      /\ MgrRecord("select", p)
      /\ UNCHANGED <<hoverClose, qlHoverIndex, menuHoverIndex, overlayShown, xrVars, trigVars,
                     molVars, obsVars, styleHist, resolved, pureVars>>

NextPanels ==
  \/ \E id \in PanelIds : MgrToggle(id)
  \/ MgrUpdate
  \/ \E ray \in PanelRays : MgrHandlePointer(ray)
  \/ MgrHandleSelect

SpecPanels == Init /\ [][NextPanels]_vars

(***************************************************************************)
(* loadPDB on its own: applied once to a fetch result                      *)
(***************************************************************************)
\* atom counts within Window of a threshold of loadPDB
FetchSizes ==
  {t + d : t \in {WireframeAbove, PointCloudAbove, TooLargeAbove}, d \in -Window..Window}

InitLoad ==
  /\ InitScene
  /\ fetchOk \in BOOLEAN
  /\ fetched \in FetchSizes
  /\ loaded = NotLoaded
  /\ NothingParsed
  /\ NothingBonded
  /\ NothingSampled
  /\ NothingRelayed

\* loadPDB(id) for the fetch result at hand: the group it returns, by kind, or
\* the error it throws
LoadPDB ==
  /\ loaded = NotLoaded
  /\ LET res == loadPDB(fetchOk, fetched)
     IN  loaded' = [error |-> res.error,
                    kind |-> IF res.error = "none"
                             THEN Build(loadPDBChoice(fetched), fetched).kind ELSE "none"]
  /\ UNCHANGED <<panelVars, menuVars, xrVars, trigVars, molVars, loadVars, mgrHist, obsVars,
                 styleHist, resolved, fetchOk, fetched, radialVars, frameInput,
                 itemVars, parseVars, bondVars, ribbonVars, relayVars, pressSelect>>

NextLoad == LoadPDB

SpecLoad == InitLoad /\ [][NextLoad]_vars

(***************************************************************************)
(* Hover of the wrist menu: frames whose input is remembered, the M key,   *)
(* the start of the XR session and clicks                                  *)
(***************************************************************************)
\* animate, with the input of the frame kept for observation
\* the frames above, and frames in which both sticks are pushed to the right
\* while every ray is on wedge k of the wrist menu
SticksAndRays(x, y, k) ==
  FrameInput(Ray(k, FALSE, -1, k), Ray(k, FALSE, -1, k), Ray(k, FALSE, -1, k),
             Stick(x, y), Stick(x, y))
HoverInputs == FrameInputs \cup {SticksAndRays(100, 0, k) : k \in {0, getItemCount - 1}}

HoverFrame ==
  \E delta \in Deltas, inp \in HoverInputs : Animate(delta, inp) /\ frameInput' = inp

NextHover ==
  \/ HoverFrame
  \/ KeyM
  \/ SessionStart
  \/ Click
  \/ \E text \in OverlayTexts : OverlayLoad(text)
  \/ \E c \in Controllers, h \in {"left", "right"}, g \in BOOLEAN : Connected(c, h, g)
  \/ \E c \in Controllers : Disconnected(c)

SpecHover == Init /\ [][NextHover]_vars

(***************************************************************************)
(* parsePDB applied to texts of up to MaxLines lines                       *)
(***************************************************************************)
\* the lines tried: records of both kinds with the element in columns 77-78,
\* blank there, or cut short before them (the first is a record as a PDB file
\* writes it; the coordinate texts of the others have a sign, an exponent,
\* "Infinity", no digit at all, or are missing); a record with no element
\* anywhere; and lines that are not records (another record type, a marker
\* after a blank, a marker in lower case, an empty line)
LinesTried ==
  {
    Line(<<"A", "T", "O", "M", " ", " ">>, <<" ", "N">>,
         <<" ", " ", "1", "1", ".", "1", "0", "4">>,
         <<" ", " ", "1", "3", ".", "2", "0", "7">>,
         <<" ", " ", " ", "2", ".", "0", "3", "1">>, <<" ", "N">>),
    Line(<<"H", "E", "T", "A", "T", "M">>, <<"F", "E">>,
         <<" ", " ", "-", "1", ".", "5", "0", "0">>,
         <<" ", " ", " ", "0", ".", "0", "0", "0">>,
         <<" ", " ", " ", " ", "1", "e", "2", " ">>, <<" ", " ">>),
    Line(<<"A", "T", "O", "M", " ", " ">>, <<" ", "N">>,
         <<" ", " ", " ", "4", ".">>,
         <<>>,
         <<>>, <<>>),
    Line(<<"A", "T", "O", "M", " ", " ">>, <<" ", " ">>,
         <<"x">>,
         <<"I", "n", "f", "i", "n", "i", "t", "y">>,
         <<"-", ".", "5", "e", "-", "2", "x", " ">>, <<" ", " ">>),
    Line(<<"R", "E", "M", "A", "R", "K">>, <<" ", "O">>,
         <<" ", " ", " ", "5", ".", "0", "0", "0">>,
         <<" ", " ", " ", "5", ".", "0", "0", "0">>,
         <<" ", " ", " ", "5", ".", "0", "0", "0">>, <<" ", "O">>),
    Line(<<" ", "A", "T", "O", "M", " ">>, <<" ", "S">>,
         <<" ", " ", " ", "6", ".", "0", "0", "0">>,
         <<" ", " ", " ", "6", ".", "0", "0", "0">>,
         <<" ", " ", " ", "6", ".", "0", "0", "0">>, <<" ", "S">>),
    Line(<<"a", "t", "o", "m", " ", " ">>, <<" ", "P">>,
         <<" ", " ", " ", "7", ".", "0", "0", "0">>,
         <<" ", " ", " ", "7", ".", "0", "0", "0">>,
         <<" ", " ", " ", "7", ".", "0", "0", "0">>, <<" ", "P">>),
    Line(<<"A", "T", "O", "M", " ", " ">>, <<"\f", "N">>,
         <<"\f", " ", " ", "1", ".", "5", " ", " ">>,
         <<"U+00A0", " ", " ", "2", ".", "0", "0", "0">>,
         <<"U+2028", " ", " ", "3", ".", "0", "0", "U+FEFF">>, <<"\f", "O">>),
    Line(<<>>, <<>>,
         <<>>,
         <<>>,
         <<>>, <<>>) }

\* the texts tried: every sequence of at most MaxLines of those lines
TextsTried == UNION {[1..n -> LinesTried] : n \in 0..MaxLines}

InitParse ==
  /\ InitScene
  /\ NothingFetched
  /\ NothingBonded
  /\ NothingSampled
  /\ NothingRelayed
  /\ pdbLines \in TextsTried
  /\ parsed = <<>>
  /\ parsedDone = FALSE

\* parsePDB(text)
ParsePDB ==
  /\ ~parsedDone
  /\ parsed' = parsePDB(pdbLines)
  /\ parsedDone' = TRUE
  /\ UNCHANGED <<panelVars, menuVars, xrVars, trigVars, molVars, loadVars, mgrHist,
                 obsVars, styleHist, resolved, fetchVars, radialVars, frameInput,
                 itemVars, pdbLines, bondVars, ribbonVars, relayVars, pressSelect>>

NextParse == ParsePDB

SpecParse == InitParse /\ [][NextParse]_vars

(***************************************************************************)
(* createBallStick's bonds for short atom sequences and for lattices of    *)
(* about the size from which no bonds are made                             *)
(***************************************************************************)
\* the positions tried: pairs of them are written 1.79, 1.8 and 1.81 apart
\* along an axis (1.8 apart from 0 and from 1), exactly 1.8 apart off the
\* axes, and closer and farther than that
PositionsTried ==
  { Atom(0, 0, 0), Atom(179, 0, 0), Atom(180, 0, 0), Atom(181, 0, 0),
    Atom(-80, 0, 0), Atom(100, 0, 0), Atom(280, 0, 0),
    Atom(108, 144, 0), Atom(100, 100, 110), Atom(0, 0, 360) }

\* n atoms on the points of a cubic lattice of side 13 and spacing 1: atoms
\* next to each other along an edge or a diagonal are within the bond length,
\* atoms two apart are not
Lattice(n) ==
  [i \in 1..n |->
     Atom(100 * ((i - 1) % 13), 100 * (((i - 1) \div 13) % 13), 100 * ((i - 1) \div 169))]

AtomsTried ==
  UNION {[1..n -> PositionsTried] : n \in 0..MaxAtoms}
    \cup {Lattice(BondCeiling - 1), Lattice(BondCeiling), Lattice(BondCeiling + 1)}

InitBonds ==
  /\ InitScene
  /\ NothingFetched
  /\ NothingParsed
  /\ NothingSampled
  /\ NothingRelayed
  /\ bondAtoms \in AtomsTried
  /\ bonds = {}
  /\ bondsDone = FALSE

\* createBallStick(atoms), as far as its bonds go
CreateBallStick ==
  /\ ~bondsDone
  /\ bonds' = bondsOf(bondAtoms)
  /\ bondsDone' = TRUE
  /\ UNCHANGED <<panelVars, menuVars, xrVars, trigVars, molVars, loadVars, mgrHist,
                 obsVars, styleHist, resolved, fetchVars, radialVars, frameInput,
                 itemVars, parseVars, bondAtoms, ribbonVars, relayVars, pressSelect>>

NextBonds == CreateBallStick

SpecBonds == InitBonds /\ [][NextBonds]_vars

(***************************************************************************)
(* createRibbon's control points for small atom counts and for counts      *)
(* about the multiples of 300                                              *)
(***************************************************************************)
RibbonSizes ==
  (0..Window) \cup {k * RibbonSamples + d : k \in 1..5, d \in (-Window)..Window}

InitRibbon ==
  /\ InitScene
  /\ NothingFetched
  /\ NothingParsed
  /\ NothingBonded
  /\ NothingRelayed
  /\ ribbonAtoms \in RibbonSizes
  /\ ribbonPoints = <<>>
  /\ ribbonDone = FALSE

\* createRibbon(atoms), as far as the curve's control points go
CreateRibbon ==
  /\ ~ribbonDone
  /\ ribbonPoints' = ribbonPointsOf(ribbonAtoms)
  /\ ribbonDone' = TRUE
  /\ UNCHANGED <<panelVars, menuVars, xrVars, trigVars, molVars, loadVars, mgrHist,
                 obsVars, styleHist, resolved, fetchVars, radialVars, frameInput,
                 itemVars, parseVars, bondVars, ribbonAtoms, relayVars, pressSelect>>

NextRibbon == CreateRibbon

SpecRibbon == InitRibbon /\ [][NextRibbon]_vars

(***************************************************************************)
(* The trigger presses, with what the selectstart of each right-trigger    *)
(* press ran kept until the next one                                       *)
(***************************************************************************)
\* selectstart handler, with a panel manager that has handleSelect: what it
\* runs besides starting the long-press timer
selectstartRuns ==
  LET p == handleSelectTarget(panelVisible)
  IN  IF p # "undefined" /\ panelSelectConsumed(hoverClose, p) THEN "panel"
      ELSE IF menuVisible /\ menuSelected # <<>> THEN "menu"
      ELSE "none"

\* a trigger press, remembering what its selectstart ran
PressStart(c) ==
  /\ SelectStartWithPanels(c)
  /\ pressSelect' = IF c = rightController THEN selectstartRuns ELSE pressSelect

PressFrame ==
  \E delta \in Deltas, inp \in FrameInputs : Animate(delta, inp) /\ UNCHANGED frameInput

NextPress ==
  \/ SessionStart
  \/ \E c \in Controllers, h \in {"left", "right"}, g \in BOOLEAN : Connected(c, h, g)
  \/ \E c \in Controllers : PressStart(c)
  \/ \E c \in Controllers : ButtonRelease(c)
  \/ \E c \in Controllers : SelectEnd(c)
  \/ KeyM
  \/ PressFrame

SpecPress == Init /\ [][NextPress]_vars

(***************************************************************************)
(* The relay server and the NetworkManager of each peer.  A frame is its   *)
(* kind, the text it starts with (body) and the bytes after that text      *)
(* (tail); a string is the text it starts with and the code points after   *)
(* it.                                                                     *)
(***************************************************************************)
LoadBody(id) == [json |-> TRUE, type |-> "load", pdbId |-> id]
ChatBody == [json |-> TRUE, type |-> "chat", pdbId |-> ""]
WelcomeBody == [json |-> FALSE, type |-> "none", pdbId |-> ""]

\* U+FFFD, the replacement character
Replacement == 65533

\* UTF-8: the bytes that may follow the lead byte b as its second byte, and
\* how many bytes follow it in all (lead bytes are 0xC2-0xF4; 0xE0, 0xED,
\* 0xF0 and 0xF4 narrow their second byte)
secondBytes(b) ==
  IF b = 224 THEN 160..191
  ELSE IF b = 237 THEN 128..159
  ELSE IF b = 240 THEN 144..191
  ELSE IF b = 244 THEN 128..143
  ELSE 128..191
followers(b) ==
  IF b \in 194..223 THEN 1
  ELSE IF b \in 224..239 THEN 2
  ELSE IF b \in 240..244 THEN 3
  ELSE 0

\* the UTF-8 decoding of bytes: a well-formed sequence gives its code point;
\* a byte that starts none and every longest prefix of a well-formed
\* sequence that is cut short give one U+FFFD each
RECURSIVE utf8Decode(_)
utf8Decode(bytes) ==
  IF bytes = <<>> THEN <<>>
  ELSE LET b == Head(bytes)
           n == followers(b)
           ok(i) == /\ i + 1 <= Len(bytes)
                    /\ bytes[i + 1] \in (IF i = 1 THEN secondBytes(b) ELSE 128..191)
           taken == IF n >= 1 /\ ok(1)
                    THEN (IF n >= 2 /\ ok(2)
                          THEN (IF n >= 3 /\ ok(3) THEN 3 ELSE 2)
                          ELSE 1)
                    ELSE 0
           low(i) == bytes[i + 1] - 128
           point == IF n = 1 THEN (b - 192) * 64 + low(1)
                    ELSE IF n = 2 THEN (b - 224) * 4096 + low(1) * 64 + low(2)
                    ELSE (b - 240) * 262144 + low(1) * 4096 + low(2) * 64 + low(3)
       IN  IF b < 128 THEN <<b>> \o utf8Decode(Tail(bytes))
           ELSE IF n = 0 THEN <<Replacement>> \o utf8Decode(Tail(bytes))
           ELSE IF taken < n
           THEN <<Replacement>> \o utf8Decode(SubSeq(bytes, taken + 2, Len(bytes)))
           ELSE <<point>> \o utf8Decode(SubSeq(bytes, n + 2, Len(bytes)))

\* the code units U+D800..U+DFFF, which a string may hold unpaired
Surrogates == 55296..57343

\* the UTF-8 encoding of a string, given as its code points and its unpaired
\* surrogates: an unpaired surrogate is encoded as U+FFFD
RECURSIVE utf8Encode(_)
utf8Encode(points) ==
  IF points = <<>> THEN <<>>
  ELSE LET c == Head(points)
       IN  (IF c < 128 THEN <<c>>
            ELSE IF c < 2048 THEN <<192 + (c \div 64), 128 + (c % 64)>>
            ELSE IF c \in Surrogates THEN utf8Encode(<<Replacement>>)
            ELSE IF c < 65536
            THEN <<224 + (c \div 4096), 128 + ((c \div 64) % 64), 128 + (c % 64)>>
            ELSE <<240 + (c \div 262144), 128 + ((c \div 4096) % 64),
                   128 + ((c \div 64) % 64), 128 + (c % 64)>>)
           \o utf8Encode(Tail(points))

\* data.toString(): the UTF-8 decoding of the frame's bytes
toString(data) == [body |-> data.body, tail |-> utf8Decode(data.tail)]

\* socket.send(string): a text frame holding the string's UTF-8 encoding
TextFrame(str) == [binary |-> FALSE, body |-> str.body, tail |-> utf8Encode(str.tail)]

\* event.data of the frame at the receiving peer
eventData(frame) == toString(frame)

\* the white space JSON allows around a value: tab, line feed, carriage
\* return and blank
JsonWhiteSpace == {9, 10, 13, 32}

\* JSON.parse(event.data): does not throw only for a JSON text with nothing
\* but white space after it
parses(str) ==
  str.body.json /\ \A i \in 1..Len(str.tail) : str.tail[i] \in JsonWhiteSpace

\* mutant of onmessage: the load is broadcast again by the receiver
onmessage_Rebroadcast(str) ==
  IF parses(str) /\ str.body.type = "load" /\ str.body.pdbId # ""
  THEN [loads |-> <<str.body.pdbId>>, sends |-> <<TextFrame(str)>>, throws |-> FALSE]
  ELSE [loads |-> <<>>, sends |-> <<>>, throws |-> ~parses(str)]

\* NetworkManager's onmessage: the calls of scene.loadPdbId it makes, the
\* frames it sends, and whether it ends in an exception (the SyntaxError of
\* JSON.parse, which nothing catches)
onmessage(str) ==
  IF parses(str) /\ str.body.type = "load" /\ str.body.pdbId # ""
  THEN [loads |-> <<str.body.pdbId>>, sends |-> <<>>, throws |-> FALSE]
  ELSE [loads |-> <<>>, sends |-> <<>>, throws |-> ~parses(str)]

\* ws.send('Welcome to the shared session!')
Welcome == TextFrame([body |-> WelcomeBody, tail |-> <<>>])

\* the frames peers send: text frames of NetworkManager.sendMessage, one of
\* them of a string that ends in the unpaired surrogate U+D800, and
\* binary frames whose bytes are a load message alone, followed by a blank,
\* by the three bytes of a euro sign, by a byte that is not UTF-8 (0xFF),
\* and by the first two bytes of a euro sign (0xE2 0x82)
FramesTried ==
  { TextFrame([body |-> LoadBody("1CRN"), tail |-> <<>>]),
    TextFrame([body |-> LoadBody(""), tail |-> <<>>]),
    TextFrame([body |-> ChatBody, tail |-> <<>>]),
    TextFrame([body |-> LoadBody("1CRN"), tail |-> <<55296>>]),
    [binary |-> TRUE, body |-> LoadBody("1CRN"), tail |-> <<>>],
    [binary |-> TRUE, body |-> LoadBody("1CRN"), tail |-> <<32>>],
    [binary |-> TRUE, body |-> LoadBody("1CRN"), tail |-> <<226, 130, 172>>],
    [binary |-> TRUE, body |-> LoadBody("1CRN"), tail |-> <<255>>],
    [binary |-> TRUE, body |-> LoadBody("1CRN"), tail |-> <<226, 130>>] }

sceneRest == <<panelVars, menuVars, xrVars, trigVars, molVars, mgrHist, spawned, heldTicks,
               styleHist, fetchVars, radialVars, frameInput, itemVars, parseVars,
               bondVars, ribbonVars, pressSelect>>
sceneIdle == <<sceneRest, loadVars, invoked, afterFrame, resolved>>

\* wss.on('connection'): the socket joins wss.clients and is sent the welcome
Connection(p) ==
  /\ readyState[p] = "absent"
  /\ readyState' = [readyState EXCEPT ![p] = "OPEN"]
  /\ toPeer' = [toPeer EXCEPT ![p] = <<Welcome>>]
  /\ UNCHANGED <<toServer, peerLoads, sentCount, sceneIdle>>

\* a peer's socket sends a frame (NetworkManager.sendMessage sends text; any
\* other client of the relay may send a binary frame)
SocketSend(p, frame) ==
  /\ readyState[p] = "OPEN"
  /\ sentCount < MaxSends
  /\ sentCount' = sentCount + 1
  /\ toServer' = [toServer EXCEPT ![p] = Append(@, frame)]
  /\ UNCHANGED <<readyState, toPeer, peerLoads, sceneIdle>>

\* ws.on('message') of the socket of peer p
ServerOnMessage(p) ==
  /\ readyState[p] # "absent"
  /\ toServer[p] # <<>>
  /\ LET data == Head(toServer[p])
     IN  toPeer' = [client \in Peers |->
                     IF client # p /\ readyState[client] = "OPEN"
                     THEN Append(toPeer[client], TextFrame(toString(data)))
                     ELSE toPeer[client]]
  /\ toServer' = [toServer EXCEPT ![p] = Tail(@)]
  /\ UNCHANGED <<readyState, peerLoads, sentCount, sceneIdle>>

\* socket.onmessage of peer p; the load of peer 1 is a call of this scene's
\* loadPdbId
PeerOnMessage(p) ==
  /\ readyState[p] # "absent"
  /\ toPeer[p] # <<>>
  /\ LET res == onmessage(eventData(Head(toPeer[p])))
     IN  /\ peerLoads' = [peerLoads EXCEPT ![p] = @ \o res.loads]
         /\ toServer' = [toServer EXCEPT ![p] = @ \o res.sends]
         /\ IF p = Me /\ res.loads # <<>>
            THEN /\ RequestLoad
                 /\ invoked' = <<>>
                 /\ afterFrame' = FALSE
                 /\ resolved' = NoResolve
                 /\ UNCHANGED sceneRest
            ELSE UNCHANGED sceneIdle
  /\ toPeer' = [toPeer EXCEPT ![p] = Tail(@)]
  /\ UNCHANGED <<readyState, sentCount>>

\* the closing handshake of peer p's socket begins: it stays in wss.clients
\* with readyState CLOSING
Closing(p) ==
  /\ readyState[p] = "OPEN"
  /\ readyState' = [readyState EXCEPT ![p] = "CLOSING"]
  /\ UNCHANGED <<toServer, toPeer, peerLoads, sentCount, sceneIdle>>

\* ws.on('close') / socket.onclose: the socket leaves wss.clients and what
\* was in flight on it is lost
Closed(p) ==
  /\ readyState[p] = "CLOSING"
  /\ readyState' = [readyState EXCEPT ![p] = "absent"]
  /\ toServer' = [toServer EXCEPT ![p] = <<>>]
  /\ toPeer' = [toPeer EXCEPT ![p] = <<>>]
  /\ UNCHANGED <<peerLoads, sentCount, sceneIdle>>

NextRelay ==
  \/ \E p \in Peers : Connection(p)
  \/ \E p \in Peers, frame \in FramesTried : SocketSend(p, frame)
  \/ \E p \in Peers : ServerOnMessage(p)
  \/ \E p \in Peers : PeerOnMessage(p)
  \/ \E p \in Peers : Closing(p)
  \/ \E p \in Peers : Closed(p)

SpecRelay == Init /\ [][NextRelay]_vars

(***************************************************************************)
(* The items of a RadialMenu: setAction                                    *)
(***************************************************************************)
\* the labels setAction is called with: those of the menu, and those the
\* context menu was meant to have, which no item carries
LabelsTried == {"Help", "Settings", "Load", "Visuals", "Info", "Hide"}

\* RadialMenu.setAction(label, action)
RadialMenuSetAction(label, action) ==
  /\ itemList' = setAction(itemList, label, action)
  /\ setActionCall' = [label |-> label, action |-> action]
  /\ UNCHANGED <<panelVars, menuVars, xrVars, trigVars, molVars, loadVars, mgrHist,
                 obsVars, styleHist, resolved, fetchVars, radialVars, frameInput,
                 parseVars, bondVars, ribbonVars, relayVars, pressSelect>>

NextItems == \E label \in LabelsTried, action \in ActionIds : RadialMenuSetAction(label, action)

SpecItems == Init /\ [][NextItems]_vars

(***************************************************************************)
(* A RadialMenu on its own: hover set by a pointer ray or by the left      *)
(* stick, and select                                                       *)
(***************************************************************************)
\* the stick positions tried, in hundredths of full deflection
StickCoords == (-StickSpan)..StickSpan

RadialMenuNow == [hoverIndex |-> hoverIndex, color |-> wedgeColor]

\* everything but the menu and the actions it runs
restVars == <<panelVars, menuVars, xrVars, trigVars, molVars, loadVars, mgrHist, spawned,
              heldTicks, afterFrame, styleHist, resolved, fetchVars, frameInput,
              itemVars, parseVars, bondVars, ribbonVars, relayVars, pressSelect>>

\* RadialMenu.handlePointer for a ray whose first hit is wedge w, -1 for a miss
RadialMenuHandlePointer(w) ==
  /\ LET m == setHover(RadialMenuNow, w)
     IN  hoverIndex' = m.hoverIndex /\ wedgeColor' = m.color
  /\ menuCall' = [op |-> "handlePointer", x |-> 0, y |-> 0, index |-> w]
  /\ invoked' = <<>>
  /\ UNCHANGED restVars

\* animate, thumbstick hover, for left-stick axes (x, y)
ThumbstickHover(x, y) ==
  /\ LET m == setHover(RadialMenuNow, stickHover(Stick(x, y)))
     IN  hoverIndex' = m.hoverIndex /\ wedgeColor' = m.color
  /\ menuCall' = [op |-> "stick", x |-> x, y |-> y, index |-> stickHover(Stick(x, y))]
  /\ invoked' = <<>>
  /\ UNCHANGED restVars

\* RadialMenu.select
RadialMenuSelect ==
  /\ invoked' = selectedItem(RadialMenuItems(<<>>), hoverIndex)
  /\ menuCall' = [op |-> "select", x |-> 0, y |-> 0, index |-> hoverIndex]
  /\ UNCHANGED <<hoverIndex, wedgeColor>>
  /\ UNCHANGED restVars

NextMenu ==
  \/ \E w \in Wedges \cup {-1} : RadialMenuHandlePointer(w)
  \/ \E x \in StickCoords, y \in StickCoords : ThumbstickHover(x, y)
  \/ RadialMenuSelect

SpecMenu == Init /\ [][NextMenu]_vars

(***************************************************************************)
(* Properties of the panel manager                                         *)
(***************************************************************************)
\* the last two calls made on the manager were both toggle
TwoToggles == mgrLast.op = "toggle" /\ mgrPrev.op = "toggle"

\* C1: after toggle(id) twice in succession every panel is hidden if id was
\* not visible before the first call, and id alone is visible if it was; after
\* toggle(a) then toggle(b) with a # b, b is visible and no other panel is.
C1_ToggleTwice ==
  TwoToggles =>
    IF mgrLast.arg = mgrPrev.arg
    THEN Visible(panelVisible) = (IF mgrPrev.arg \in mgrPrev.pre THEN {mgrPrev.arg} ELSE {})
    ELSE Visible(panelVisible) = {mgrLast.arg}

\* toggle(id) was called twice in succession on a visible panel, which is
\* visible again
C1_Witness ==
  /\ TwoToggles
  /\ mgrLast.arg = mgrPrev.arg
  /\ mgrPrev.pre = {mgrPrev.arg}
  /\ mgrLast.pre = {}
  /\ Visible(panelVisible) = {mgrLast.arg}

\* C1 as stated: toggle(id) twice in succession ends with every panel hidden,
\* from any panel state; toggle(a) then toggle(b), a # b, ends with only b
\* visible.
C1_ToggleTwiceHidesAll ==
  TwoToggles =>
    IF mgrLast.arg = mgrPrev.arg
    THEN Visible(panelVisible) = {}
    ELSE Visible(panelVisible) = {mgrLast.arg}

\* C2: in every state reached by toggle, update, pointer forwarding and
\* selects (of close buttons and of quick-load buttons) at most one panel of
\* the manager is visible.
C2_AtMostOneVisible == Cardinality(Visible(panelVisible)) <= 1

\* after a select that left a panel open, toggle of another panel has left
\* that other panel as the only visible one
C2_Witness ==
  /\ mgrPrev.op = "select"
  /\ mgrLast.op = "toggle"
  /\ Cardinality(mgrLast.pre) = 1
  /\ mgrLast.arg \notin mgrLast.pre
  /\ Visible(panelVisible) = {mgrLast.arg}

(***************************************************************************)
(* Properties of the load-time choice of representation                    *)
(***************************************************************************)
\* C3: for a fetch that succeeded, loadPDB on n atoms fails with
\* StructureTooLarge exactly when n > 50000 and otherwise returns a
\* point-cloud for 20000 < n <= 50000, a wireframe for 5000 < n <= 20000 and
\* ball-and-stick for n <= 5000; so 50000 atoms load and 50001 fail.
C3_LoadTimeRepresentation ==
  (loaded # NotLoaded /\ fetchOk) =>
    /\ (fetched > 50000) <=> (loaded.error = "StructureTooLarge")
    /\ (fetched > 50000) => loaded.kind = "none"
    /\ (fetched > 20000 /\ fetched <= 50000) =>
         (loaded.error = "none" /\ loaded.kind = "point-cloud")
    /\ (fetched > 5000 /\ fetched <= 20000) =>
         (loaded.error = "none" /\ loaded.kind = "wireframe")
    /\ (fetched <= 5000) =>
         (loaded.error = "none" /\ loaded.kind = "ball-and-stick")

\* 50000 atoms have been loaded, as a point cloud
C3_Witness ==
  fetchOk /\ fetched = 50000 /\ loaded.error = "none" /\ loaded.kind = "point-cloud"

(***************************************************************************)
(* Properties of the representation cycle                                  *)
(***************************************************************************)
\* the cycle of styles as the builders that make them, in the order claimed
ClaimedCycle ==
  <<"createBallStick", "createSpaceFill", "createWireframe",
    "createTransparentSurface", "createRibbon">>

\* C4: every next-representation command given on a loaded molecule sets the
\* representation index to (previous + 1) mod 5 and displays a new group built
\* by the builder at that index of [ball-and-stick, space-fill, wireframe,
\* transparent-surface, ribbon], whatever the atom count and whether or not a
\* transition is in flight; the index is always one of 0..4.
C4_NextRepresentation ==
  [][ /\ repIndex' \in 0..4
      /\ (invoked' = <<"Visuals">> /\ atoms # -1) =>
           /\ repIndex' = (repIndex + 1) % 5
           /\ moleculeGroup' = Len(groups) + 1
           /\ moleculeGroup' \in scene'
           /\ groups'[moleculeGroup'].builder = ClaimedCycle[repIndex' + 1]
           /\ atoms' = atoms ]_vars

\* a command given while the transition of the one before was in flight has
\* wrapped the index from 4 to 0, on a molecule loaded as a wireframe
C4_Witness ==
  /\ invoked = <<"Visuals">>
  /\ repIndex = 0
  /\ atoms > 5000
  /\ transitionOld # 0
  /\ groups[transitionOld].scale > onePercent(moleculeScale)
  /\ groups[transitionOld].scale < moleculeScale
  /\ groups[moleculeGroup].builder = "createBallStick"

\* C5 as stated: after five next-representation commands in a row on a loaded
\* molecule the displayed style is the one displayed before the first of them.
C5_FiveCommandsReturn ==
  (Len(styleHist) = 5 /\ moleculeGroup # 0) =>
    groups[moleculeGroup].kind = styleHist[1]

(***************************************************************************)
(* Properties of the long-press context menu                               *)
(***************************************************************************)
\* a step that is one display frame
FrameStep == afterFrame' /\ pressed' = pressed /\ selecting' = selecting

\* a step in which showContextMenu ran
SpawnStep == spawned' > spawned

\* a step that delivers selectend of the right-hand trigger
RightSelectEndStep ==
  RightHand # 0 /\ RightHand' = RightHand /\ selecting[RightHand] /\ ~selecting'[RightHand]

\* C6: a context menu is spawned only in a frame in which the right-hand
\* trigger is down, has been down since its press for an accumulated frame time
\* of more than 0.4 s, and no context menu is open; at most one context menu is
\* spawned per press, and at most one is in the scene.
C6_SpawnOnlyAfterHold ==
  [][ /\ SpawnStep =>
           /\ FrameStep
           /\ RightHand # 0
           /\ pressed[RightHand] /\ selecting[RightHand]
           /\ triggerHeld
           /\ heldTicks' > 4
           /\ ~contextMenuVisible
           /\ contextMenuVisible'
      /\ spawned' <= 1
      /\ ctxInScene' <= 1 ]_vars

\* C7: when the right-hand trigger is released with an accumulated hold time
\* of at most 0.4 s, the selectend handler, and any frame that finds the
\* trigger up, leave the machine Idle (triggerHeld false, hold duration 0), and
\* no context menu is spawned for that press, then or later: none is spawned
\* while the machine is Idle, and the machine leaves Idle only in a selectstart.
C7_EarlyReleaseIsIdle ==
  [][ /\ ((RightSelectEndStep \/ (FrameStep /\ RightHand # 0 /\ ~pressed[RightHand]))
            /\ heldTicks <= 4) =>
           /\ ~triggerHeld'
           /\ triggerHoldDuration' = 0
           /\ spawned' = 0
      /\ (RightHand' # 0 /\ ~pressed'[RightHand'] /\ heldTicks' <= 4) => spawned' = 0
      /\ SpawnStep => triggerHeld
      /\ ~triggerHeld' => triggerHoldDuration' = 0
      /\ (triggerHeld' /\ ~triggerHeld) =>
           \E c \in Controllers : ~selecting[c] /\ selecting'[c] ]_vars

\* the trigger was let go after exactly 0.4 s of hold, a frame has run since,
\* and no context menu was spawned
C7_Witness ==
  /\ RightHand # 0
  /\ ~pressed[RightHand] /\ ~selecting[RightHand]
  /\ heldTicks = HOLD_TIME
  /\ afterFrame
  /\ ~triggerHeld
  /\ triggerHoldDuration = 0
  /\ spawned = 0
  /\ ~contextMenuVisible

\* C8: when selectend of the right-hand trigger arrives while a context menu is
\* open, the action of the menu's hovered wedge is invoked once, and none if no
\* wedge is hovered; the menu leaves the scene and is discarded, and the
\* machine is Idle (contextMenuVisible false, triggerHeld false, duration 0).
C8_ReleaseClosesContextMenu ==
  [][ (RightSelectEndStep /\ contextMenuVisible /\ contextMenu.defined) =>
        /\ Len(invoked') = (IF contextMenu.hoverIndex = -1 THEN 0 ELSE 1)
        /\ contextMenu.hoverIndex # -1 =>
             invoked'[1] = RadialMenuItems(ContextItemsPassed)[contextMenu.hoverIndex + 1]
        /\ ctxInScene' = ctxInScene - 1
        /\ ctxInScene' = 0
        /\ ~contextMenu'.defined
        /\ ~contextMenuVisible'
        /\ ~triggerHeld'
        /\ triggerHoldDuration' = 0 ]_vars

\* the trigger was let go with the context menu of this press open: the menu
\* is gone, nothing was invoked because no wedge was hovered
C8_Witness ==
  /\ RightHand # 0
  /\ ~selecting[RightHand]
  /\ spawned = 1
  /\ heldTicks > HOLD_TIME
  /\ ~afterFrame
  /\ invoked = <<>>
  /\ ~contextMenuVisible
  /\ ~contextMenu.defined
  /\ ctxInScene = 0
  /\ ~triggerHeld
  /\ triggerHoldDuration = 0

(***************************************************************************)
(* Properties of the transition between representations                    *)
(***************************************************************************)
\* C9: a frame that brings the elapsed time of a transition in flight to 0.5 s
\* or more completes it in that frame: the outgoing group leaves the scene and
\* the transition slot is cleared; in flight the elapsed time is below 0.5 s,
\* and a cleared slot stays cleared until the next next-representation command.
C9_TransitionCompletes ==
  [][ /\ (transitionNew # 0 /\ transitionProgress' > transitionProgress
            /\ transitionProgress' >= 5) =>
           /\ transitionNew' = 0
           /\ transitionOld' = 0
           /\ transitionOld \notin scene'
      /\ (transitionNew' # 0) => transitionProgress' < 5
      /\ (transitionNew' = 0) => transitionOld' = 0
      /\ (transitionNew = 0 /\ (transitionNew' # 0 \/ transitionOld' # 0)) =>
           invoked' = <<"Visuals">> ]_vars

\* a transition has completed in the frame that brought its elapsed time to
\* exactly 0.5 s, and its outgoing group is out of the scene
C9_Witness ==
  /\ transitionProgress = DURATION
  /\ transitionNew = 0
  /\ transitionOld = 0
  /\ moleculeGroup # 0
  /\ moleculeGroup \in scene
  /\ Cardinality(scene) = 1
  /\ Len(groups) > 1

\* C10 as stated: in every frame of a transition the incoming group is scaled
\* from 1% to 100% of the scale computed at load and the outgoing group from
\* 100% to 1% of it, linearly in t = min(elapsed / 0.5 s, 1), and in the frame
\* that completes the transition the incoming group is left at exactly 100% of
\* that scale.
C10_TransitionScales ==
  [][ (transitionNew # 0 /\ transitionNew = moleculeGroup
         /\ transitionProgress' > transitionProgress) =>
        LET t == IF transitionProgress' > 5 THEN 5 ELSE transitionProgress'
            low == moleculeScale \div 100
            span == moleculeScale - low
        IN  IF t >= 5
            THEN groups'[transitionNew].scale = moleculeScale
            ELSE /\ groups'[transitionNew].scale = low + (span * t) \div 5
                 /\ transitionOld # 0 =>
                      groups'[transitionOld].scale
                        = (5 * moleculeScale - span * t) \div 5 ]_vars

(***************************************************************************)
(* Properties of the molecule's render groups                              *)
(***************************************************************************)
\* the step is loadPdbId resuming after its await
LoadResumes == resolved'.req # 0
\* ... with a fetch that failed or a structure over the atom limit
LoadFailed == LoadResumes /\ (~resolved'.ok \/ resolved'.n > TooLargeAbove)
\* ... with a structure that is installed
LoadSucceeded == LoadResumes /\ resolved'.ok /\ resolved'.n <= TooLargeAbove
\* the step is loadPdbId called, up to its await
LoadRequested == nextReq' > nextReq
\* the step is a next-representation command
CycleStep == invoked' = <<"Visuals">>
\* the step is the frame that completes a transition
CompletionStep == transitionNew # 0 /\ transitionNew' = 0 /\ afterFrame'
\* a group that holds geometry and material on the GPU
HoldsGpuResources(g) == g.mesh \/ g.builder = "createPointCloud"
\* the groups of the displayed molecule: the current one and the outgoing one
\* of the transition in flight
MoleculeGroups ==
  ({moleculeGroup} \cup (IF transitionNew # 0 THEN {transitionOld} ELSE {})) \ {0}

\* C11 as stated: the frame that completes a transition removes the outgoing
\* group from the scene and releases (disposes) its GPU resources.
C11_CompletionReleasesOutgoing ==
  [][ (CompletionStep /\ transitionOld # 0) =>
        /\ transitionOld \notin scene'
        /\ HoldsGpuResources(groups[transitionOld]) =>
             groups'[transitionOld].disposed ]_vars

\* C12 as stated: a next-representation command given while a transition is in
\* flight resets the elapsed time to 0, makes the group that was incoming the
\* outgoing group, makes the newly built group the incoming and current group,
\* and leaves exactly one transition tracked.
C12_CycleReplacesTransition ==
  [][ (CycleStep /\ hasAtoms(atoms) /\ transitionNew # 0) =>
        /\ transitionProgress' = 0
        /\ transitionOld' = transitionNew
        /\ Len(groups') = Len(groups) + 1
        /\ transitionNew' = Len(groups')
        /\ moleculeGroup' = Len(groups') ]_vars

\* C13 as stated: at most one group is current and one transition tracked,
\* every molecule group in the scene is the current group or the outgoing
\* group of the transition in flight, and with a molecule loaded and no
\* transition in flight the scene holds exactly one molecule group.
C13_NoOrphanedGroup ==
  /\ scene \subseteq MoleculeGroups
  /\ (moleculeGroup # 0 /\ transitionNew = 0) => scene = {moleculeGroup}

\* C14: a load that fails (the fetch response is not a success, or the
\* structure has more than 50000 atoms) ends in the catch of loadPdbId with an
\* error of its kind and changes none of the current group, the atoms, the
\* representation index, the scale, the transition slot, the groups and the
\* scene; requesting the load changes none of them either.
C14_FailedLoadChangesNothing ==
  [][ /\ LoadFailed =>
           /\ resolved'.error =
                (IF resolved'.ok THEN "StructureTooLarge" ELSE "FetchFailed")
           /\ UNCHANGED molVars
      /\ LoadRequested => UNCHANGED molVars ]_vars

\* a load of a structure over the limit has failed while a molecule was
\* displayed and a transition was in flight
C14_Witness ==
  /\ resolved.req # 0
  /\ resolved.ok
  /\ resolved.n > TooLargeAbove
  /\ moleculeGroup # 0
  /\ moleculeGroup \in scene
  /\ transitionNew # 0
  /\ atoms # -1

\* C15: a next-representation command given while no molecule is set (before
\* any successful load, or after the Hide action) changes none of the
\* representation index, the current group, the transition slot, the groups
\* and the scene.
C15_CycleWithoutMoleculeIsNoOp ==
  [][ (CycleStep /\ atoms = -1) => UNCHANGED molVars ]_vars

\* the command has been given after Hide removed a molecule whose style had
\* been cycled once
C15_Witness ==
  /\ invoked = <<"Visuals">>
  /\ atoms = -1
  /\ moleculeGroup = 0
  /\ repIndex = 1
  /\ Len(groups) = 2

\* C16 as stated: a successful load removes from the scene every group of the
\* previous molecule, the current one and the outgoing one of a transition in
\* flight, and releases its GPU resources, point clouds included.
C16_LoadReleasesPrevious ==
  [][ LoadSucceeded =>
        \A g \in MoleculeGroups :
          /\ g \notin scene'
          /\ HoldsGpuResources(groups[g]) => groups'[g].disposed ]_vars

\* C17: requesting a load cancels no outstanding one, and each load that
\* resolves with a structure installs it at that moment: its atoms and a newly
\* built group become current, the group that was current leaves the scene,
\* and only the resolved request stops being outstanding; so the molecule
\* displayed is that of the load that resolved last.
C17_LastResolvedLoadWins ==
  [][ /\ LoadRequested => pending \subseteq pending'
      /\ LoadResumes => pending' = pending \ {resolved'.req}
      /\ LoadSucceeded =>
           /\ atoms' = resolved'.n
           /\ Len(groups') = Len(groups) + 1
           /\ moleculeGroup' = Len(groups')
           /\ groups'[moleculeGroup'].builder = loadPDBChoice(resolved'.n)
           /\ moleculeGroup' \in scene'
           /\ moleculeGroup \notin scene' ]_vars

\* two loads were outstanding together; the second one requested resolved
\* first and was installed, then the first one resolved and replaced it
C17_Witness ==
  /\ resolved.req = 1
  /\ resolved.error = "none"
  /\ nextReq > 2
  /\ pending = {}
  /\ atoms = resolved.n
  /\ Len(groups) = 2
  /\ groups[1].disposed
  /\ moleculeGroup = 2
  /\ scene = {2}

(***************************************************************************)
(* Properties of the radial menu                                           *)
(***************************************************************************)
\* the direction (x, y) of the stick at the angle where wedge k starts,
\* k * 2 pi / 4 clockwise from "up"; wedge 4 starts where wedge 0 does
WedgeStart(k) ==
  CASE k % 4 = 0 -> <<0, 1>>
    [] k % 4 = 1 -> <<1, 0>>
    [] k % 4 = 2 -> <<0, -1>>
    [] k % 4 = 3 -> <<-1, 0>>
\* the component of the deflection (x, y) along that direction
Along(x, y, k) == x * WedgeStart(k)[1] + y * WedgeStart(k)[2]
\* theta = atan2(x, y), normalised to [0, 2 pi), lies in
\* [k * 2 pi / 4, (k + 1) * 2 pi / 4): the angle from the start of wedge k has
\* a positive cosine and a sine that is not negative
ThetaInWedge(x, y, k) == Along(x, y, k) > 0 /\ Along(x, y, k + 1) >= 0

\* C18: for the four-wedge menu and a left-stick deflection (x, y) of
\* magnitude above the dead zone, the index handed to setHover by the stick
\* path is floor(theta / (2 pi / 4)) for theta = atan2(x, y) normalised to
\* [0, 2 pi), so it is one of 0..3; for a magnitude at or below the dead zone
\* it is -1.
C18_StickHoverIndex ==
  menuCall.op = "stick" =>
    LET x == menuCall.x
        y == menuCall.y
    IN  /\ hoverIndex = menuCall.index
        /\ IF x * x + y * y > Dead * Dead
           THEN /\ menuCall.index \in 0..(getItemCount - 1)
                /\ ThetaInWedge(x, y, menuCall.index)
                /\ \A k \in 0..(getItemCount - 1) :
                     ThetaInWedge(x, y, k) => k = menuCall.index
           ELSE menuCall.index = -1

\* a deflection just left of "up", above the dead zone, hovers the last wedge
C18_Witness ==
  /\ menuCall.op = "stick"
  /\ menuCall.x = -1
  /\ menuCall.y = StickSpan
  /\ hoverIndex = getItemCount - 1
  /\ wedgeColor[getItemCount - 1] = HighlightColor

\* C19: after any sequence of setHover calls with indices in -1..3, wedge i
\* has the highlight colour if and only if i is the hover index, every other
\* wedge has the base colour, and setHover with the current index changes
\* nothing.
C19_HoverColours ==
  /\ \A w \in Wedges :
       wedgeColor[w] = (IF w = hoverIndex THEN HighlightColor ELSE BaseColor)
  /\ hoverIndex \in Wedges \cup {-1}
  /\ setHover(RadialMenuNow, hoverIndex) = RadialMenuNow

\* a pointer ray has put the hover on the third wedge: it is highlighted and
\* the first wedge is in the base colour
C19_Witness ==
  /\ menuCall.op = "handlePointer"
  /\ menuCall.index = 2
  /\ hoverIndex = 2
  /\ wedgeColor[2] = HighlightColor
  /\ wedgeColor[0] = BaseColor

\* C20: select runs the action of the item at the hover index and no other,
\* runs nothing when the hover index is -1, and changes neither the hover
\* index nor any wedge.
C20_SelectRunsHovered ==
  [][ menuCall'.op = "select" =>
        /\ invoked' = (IF hoverIndex = -1 THEN <<>>
                       ELSE <<RadialMenuItems(<<>>)[hoverIndex + 1]>>)
        /\ hoverIndex' = hoverIndex
        /\ wedgeColor' = wedgeColor ]_vars

\* select has run the action of the third item with its wedge hovered
C20_Witness ==
  /\ menuCall.op = "select"
  /\ menuCall.index = 2
  /\ hoverIndex = 2
  /\ invoked = <<"Load">>

(***************************************************************************)
(* Properties of the menus as the scene wires them                         *)
(***************************************************************************)
\* the panel id a menu action hands to panels.toggle, "none" when the action
\* toggles no panel (the Load action toggles one only in an XR session)
toggledByAction(label, presenting) ==
  CASE label = "Help" -> "help"
    [] label = "Settings" -> "settings"
    [] label = "Load" /\ presenting -> "pdbInput"
    [] OTHER -> "none"

\* C21 as stated: hover, select and toggle complete without an error for every
\* argument the callers pass: the hover index is a wedge of the menu or -1,
\* and every panel id an invoked menu action toggles is the id of a panel.
C21_OperationsTotal ==
  /\ menuHoverIndex \in Wedges \cup {-1}
  /\ \A i \in 1..Len(invoked) :
       toggledByAction(invoked[i], isPresenting) # "none" =>
         getPanel(toggledByAction(invoked[i], isPresenting)) # "undefined"

\* the items of the context menu, once showContextMenu has built it
contextMenuItems == RadialMenuItems(ContextItemsPassed)

\* C22 as stated: the context menu spawned by a long press holds the items it
\* was constructed with, Info, Center and Hide in that order and one wedge
\* each, so that selecting wedge i invokes the i-th action of that list.
C22_ContextMenuHoldsItsItems ==
  contextMenu.defined =>
    /\ Len(contextMenuItems) = Len(ContextItemsPassed)
    /\ \A i \in 1..Len(ContextItemsPassed) :
         selectedItem(contextMenuItems, i - 1) = <<ContextItemsPassed[i]>>

\* the wedge indices the devices of a frame indicate: what each pointer ray
\* hits on the wrist menu and what each stick gives
indicated(inp) ==
  {inp.mouse.menu} \cup {inp.ray[c].menu : c \in Controllers}
    \cup {stickHover(inp.stick[c]) : c \in Controllers}

\* C23 as stated: in every frame, whatever the menu's visibility and the
\* panels', the wrist menu's hover index is recomputed from that frame's
\* input, so that no select acts on an index left over from an earlier frame.
C23_HoverRecomputedEveryFrame ==
  [][ afterFrame' => menuHoverIndex' \in indicated(frameInput') ]_vars

\* the step is a call of setAction
SetActionStep == setActionCall' # setActionCall \/ itemList' # itemList

\* C24: setAction(label, action) replaces the action of the item with that
\* label and leaves the number, the order and the labels of the items and
\* every other action as they were; with a label no item has it changes
\* nothing.
C24_SetActionReplacesOne ==
  [][ SetActionStep =>
        /\ Len(itemList') = Len(itemList)
        /\ \A i \in 1..Len(itemList) :
             /\ itemList'[i].label = itemList[i].label
             /\ itemList'[i].action =
                  (IF itemList[i].label = setActionCall'.label
                   THEN setActionCall'.action ELSE itemList[i].action) ]_vars

\* the actions of init() have been installed on three items, the last of
\* them on Visuals, and the fourth still logs
C24_Witness ==
  /\ setActionCall = [label |-> "Visuals", action |-> "cycleRepresentation"]
  /\ itemList[4] = [label |-> "Visuals", action |-> "cycleRepresentation"]
  /\ itemList[1] = [label |-> "Help", action |-> "panels.toggle"]
  /\ itemList[2] = [label |-> "Settings", action |-> "panels.toggle"]
  /\ itemList[3] = [label |-> "Load", action |-> "console.log"]

(***************************************************************************)
(* Properties of the PDB loader                                            *)
(***************************************************************************)
\* a line that starts with one of the two record markers
StartsWithMarker(line) ==
  \/ (Len(line.head) >= 4 /\ SubSeq(line.head, 1, 4) = <<"A", "T", "O", "M">>)
  \/ line.head = <<"H", "E", "T", "A", "T", "M">>
\* a field with a character other than the blank in it
NonBlank(field) == \E i \in 1..Len(field) : field[i] \notin WhiteSpace

\* C25: parsePDB returns one atom for each line that starts with ATOM or
\* HETATM, in the order of the lines, and none for any other line; the
\* atom's element is the element field (columns 77-78) without its blanks
\* when that field is not blank, and the atom-name field otherwise.
C25_ParseOneAtomPerRecord ==
  parsedDone =>
    LET records == SelectSeq(pdbLines, StartsWithMarker)
    IN  /\ Len(parsed) = Len(records)
        /\ \A i \in 1..Len(records) :
             /\ parsed[i].x = parseFloat(records[i].xText)
             /\ parsed[i].y = parseFloat(records[i].yText)
             /\ parsed[i].z = parseFloat(records[i].zText)
             /\ parsed[i].element =
                  (IF NonBlank(records[i].element)
                   THEN trim(records[i].element) ELSE trim(records[i].name))

\* a text of a HETATM record with a blank element field, a line that is not
\* a record and an ATOM record cut short has given two atoms, in that order,
\* with their elements from the atom name: the first at (-1.5, 0, 100), the
\* second with x = 4 and no y and z
C25_Witness ==
  /\ parsedDone
  /\ Len(pdbLines) = 3
  /\ pdbLines[1].head = <<"H", "E", "T", "A", "T", "M">>
  /\ pdbLines[2].head = <<"R", "E", "M", "A", "R", "K">>
  /\ pdbLines[3].element = <<>>
  /\ pdbLines[3].head = <<"A", "T", "O", "M", " ", " ">>
  /\ Len(parsed) = 2
  /\ parsed[1] = [x |-> [nan |-> FALSE, inf |-> FALSE, neg |-> TRUE, m |-> <<3>>, e |-> -1],
                  y |-> Zero(FALSE),
                  z |-> [nan |-> FALSE, inf |-> FALSE, neg |-> FALSE, m |-> <<25>>, e |-> 2],
                  element |-> <<"F", "E">>]
  /\ parsed[2] = [x |-> [nan |-> FALSE, inf |-> FALSE, neg |-> FALSE, m |-> <<1>>, e |-> 2],
                  y |-> NaN, z |-> NaN, element |-> <<"N">>]

\* two atoms (by 0-based index) written less than 1.8 apart
Near(i, j) == writtenDist2(bondAtoms[i + 1], bondAtoms[j + 1]) < 180 * 180
\* two atoms written more than 1.8 apart
Far(i, j) == writtenDist2(bondAtoms[i + 1], bondAtoms[j + 1]) > 180 * 180

\* C26 as stated: for fewer than 2000 atoms createBallStick makes exactly one
\* bond for each unordered pair of atoms less than 1.8 apart and none for any
\* other pair (none for a pair exactly 1.8 apart); for 2000 atoms or more it
\* makes no bond.
C26_BondsBelowLength ==
  bondsDone =>
    LET n == Len(bondAtoms)
    IN  IF n < 2000
        THEN /\ \A b \in bonds :
                  /\ b[1] \in 0..(n - 1) /\ b[2] \in 0..(n - 1)
                  /\ b[1] # b[2]
                  /\ Near(b[1], b[2])
                  /\ <<b[2], b[1]>> \notin bonds
             /\ \A i \in 0..(n - 1) : \A j \in (i + 1)..(n - 1) :
                  Near(i, j) => (<<i, j>> \in bonds \/ <<j, i>> \in bonds)
        ELSE bonds = {}

\* C26, amended: for fewer than 2000 atoms createBallStick makes exactly one
\* bond for each unordered pair of atoms written less than 1.8 apart and none
\* for a pair written more than 1.8 apart; a pair written exactly 1.8 apart
\* has one bond when the squared distance of its coordinates, computed in
\* doubles, is below the double 1.8 ** 2, and none otherwise; for 2000 atoms
\* or more it makes no bond.
C26_BondsByRoundedDistance ==
  bondsDone =>
    LET n == Len(bondAtoms)
    IN  IF n < 2000
        THEN /\ \A b \in bonds :
                  /\ b[1] \in 0..(n - 1) /\ b[2] \in 0..(n - 1)
                  /\ b[1] # b[2]
                  /\ ~Far(b[1], b[2])
                  /\ <<b[2], b[1]>> \notin bonds
             /\ \A i \in 0..(n - 1) : \A j \in (i + 1)..(n - 1) :
                  /\ Near(i, j) => (<<i, j>> \in bonds \/ <<j, i>> \in bonds)
                  /\ (~Near(i, j) /\ ~Far(i, j)) =>
                       ((<<i, j>> \in bonds \/ <<j, i>> \in bonds)
                          <=> fless(dist2(bondAtoms[i + 1], bondAtoms[j + 1]),
                                    fsquare(number(180))))
        ELSE bonds = {}

\* three atoms written at x = -0.8, 1 and 2.8: the first two, exactly 1.8
\* apart, have no bond, and the last two, exactly 1.8 apart, have one
C26_Witness ==
  /\ bondsDone
  /\ bondAtoms = <<Atom(-80, 0, 0), Atom(100, 0, 0), Atom(280, 0, 0)>>
  /\ bonds = {<<1, 2>>}

\* C27 as stated: for an atom count n >= 2 the control points of the ribbon
\* are at most 300 atoms taken at an even stride from the first on, followed
\* by the final atom; for n < 2 the group is empty.
C27_RibbonControlPoints ==
  ribbonDone =>
    LET n == ribbonAtoms
        sampled == Len(ribbonPoints) - 1
    IN  IF n >= 2
        THEN /\ sampled >= 1 /\ sampled <= 300
             /\ ribbonPoints[1] = 0
             /\ \E step \in 1..n :
                  /\ \A i \in 1..sampled : ribbonPoints[i] = (i - 1) * step
                  /\ sampled * step >= n
             /\ ribbonPoints[Len(ribbonPoints)] = n - 1
        ELSE ribbonPoints = <<>>

\* the relay has handled the frame at the head of peer c's queue
RelayStep(c) ==
  /\ readyState' = readyState
  /\ toServer[c] # <<>>
  /\ toServer' = [toServer EXCEPT ![c] = Tail(@)]

\* the bytes of two frames are the same
SameBytes(f, g) == f.body = g.body /\ f.tail = g.tail

\* what the relay does with the frame received from c
RelaysOnce(c, unchanged) ==
  \A p \in Peers :
    IF p # c /\ readyState[p] = "OPEN"
    THEN /\ Len(toPeer'[p]) = Len(toPeer[p]) + 1
         /\ SubSeq(toPeer'[p], 1, Len(toPeer[p])) = toPeer[p]
         /\ unchanged => SameBytes(toPeer'[p][Len(toPeer'[p])], Head(toServer[c]))
    ELSE toPeer'[p] = toPeer[p]

\* C28 as stated: every frame the relay receives from a peer is sent once,
\* with the same bytes, to every other peer whose socket is open at that
\* moment, and to nobody else (not to the sender).
C28_RelayVerbatimToOthers ==
  [][\A c \in Peers : RelayStep(c) => RelaysOnce(c, TRUE)]_vars

\* peer p's onmessage has handled the frame at the head of its queue
OnMessageStep(p) ==
  /\ readyState' = readyState
  /\ toPeer[p] # <<>>
  /\ toPeer' = [toPeer EXCEPT ![p] = Tail(@)]

\* the frames in flight, to the relay and from it
RECURSIVE InFlightUpTo(_, _, _)
InFlightUpTo(p, up, down) ==
  IF p = 0 THEN 0 ELSE Len(up[p]) + Len(down[p]) + InFlightUpTo(p - 1, up, down)
InFlight == InFlightUpTo(Cardinality(Peers), toServer, toPeer)

\* the received text is a load message naming a structure
NamesStructure(str) ==
  /\ str.body.json /\ str.body.type = "load" /\ str.body.pdbId # ""
  /\ \A i \in 1..Len(str.tail) : str.tail[i] \in {9, 10, 13, 32}

\* C29: a peer whose onmessage receives a load message calls loadPdbId once
\* with the id the message names (and not at all for any other message), no
\* other peer loads, the peer sends no frame, so the number of frames in
\* flight goes down by the one handled; and no peer has loaded more often
\* than frames have been sent by peers.
C29_ReceiptLoadsOnceSendsNothing ==
  [][\A p \in Peers : OnMessageStep(p) =>
        LET str == toString(Head(toPeer[p]))
        IN  /\ peerLoads'[p] = IF NamesStructure(str)
                               THEN Append(peerLoads[p], str.body.pdbId)
                               ELSE peerLoads[p]
            /\ \A q \in Peers \ {p} : peerLoads'[q] = peerLoads[q]
            /\ toServer' = toServer
            /\ InFlight' = InFlight - 1
            /\ \A q \in Peers : Len(peerLoads'[q]) <= sentCount']_vars

\* one load message has been sent and two peers have each loaded once on
\* receiving it, with nothing left in flight
C29_Witness ==
  /\ sentCount = 1
  /\ InFlight = 0
  /\ \E p, q \in Peers : p # q /\ peerLoads[p] = <<"1CRN">> /\ peerLoads[q] = <<"1CRN">>

\* the structure-input panel is showing
InputPanelOpen == "pdbInput" \in DOMAIN panelVisible /\ panelVisible["pdbInput"]

\* C30 as stated: in an immersive session the Load action opens the
\* structure-input panel and hides the wrist menu, or closes the panel and
\* shows the menu again, and the wrist menu and the panel are never both
\* visible.
C30_MenuAndInputPanelExclusive ==
  [][/\ isPresenting' => ~(menuVisible' /\ InputPanelOpen')
     /\ (isPresenting /\ invoked' = <<"Load">>) =>
          IF InputPanelOpen
          THEN ~InputPanelOpen' /\ menuVisible'
          ELSE InputPanelOpen' /\ ~menuVisible']_vars

\* C31: in every state (after every handler and every frame) the visible
\* flag of the wrist menu's object equals menuVisible.
C31_MenuObjectFollowsFlag == menuObjVisible = menuVisible

\* the menu has been hidden, flag and object, in an immersive session whose
\* left controller is connected
C31_Witness ==
  isPresenting /\ leftController # 0 /\ ~menuVisible /\ ~menuObjVisible

\* C32: in every state contextMenuVisible is true exactly when a context
\* menu object exists, and at most one context menu object is in the scene.
C32_ContextMenuFlagAndObject ==
  /\ contextMenuVisible <=> contextMenu.defined
  /\ ctxInScene <= 1

\* a long press has opened the context menu, and a frame has seen the trigger
\* up before selectend was delivered: the menu is still there, flag and object
C32_Witness ==
  /\ contextMenuVisible /\ contextMenu.defined /\ ctxInScene = 1
  /\ ~triggerHeld

\* the frame just rendered had the wrist menu visible and the stick of the
\* left controller's gamepad beyond the dead zone
StickFrame ==
  /\ afterFrame'
  /\ isPresenting /\ menuVisible
  /\ leftController # 0 /\ inputSource[leftController].gamepad
  /\ stickHover(frameInput'.stick[leftController]) # -1

\* C33 as stated: at the end of a frame in which the wrist menu is visible
\* and the left stick is beyond the dead zone, the menu's hover index is the
\* index the stick gives, whichever controller is the left one and whatever
\* the rays hit.
C33_StickHoverWins ==
  [][ StickFrame =>
        menuHoverIndex' = stickHover(frameInput'.stick[leftController]) ]_vars

\* an action of the wrist menu has run in the step: a click or a selectstart
\* (no trigger was let go, which is what runs the context menu's actions)
WristActionStep ==
  invoked' # <<>> /\ \A c \in Controllers : selecting[c] => selecting'[c]

\* C34 as stated: no action of the wrist menu is invoked while the wrist
\* menu is hidden.
C34_NoActionWhileHidden ==
  [][ WristActionStep => menuVisible ]_vars

\* C35 as stated: a right-trigger press that becomes a long press (a frame
\* opens the context menu for it) has not run an action of the wrist menu or
\* a panel's select when it went down.
C35_LongPressIsNotASelect ==
  [][ SpawnStep => pressSelect' = "none" ]_vars

\* C36 as stated: whenever a transition is in flight the group being scaled
\* in as incoming is the current molecule group.
C36_IncomingIsCurrent ==
  transitionNew # 0 => transitionNew = moleculeGroup

\* C37: with frames going on, either next-representation commands keep
\* coming for ever or the transition slot is eventually empty and stays so.
C37_TransitionEnds ==
  []<><<CycleStep>>_vars \/ <>[](transitionNew = 0 /\ transitionOld = 0)

\* a transition was started and a frame has ended it: the slot is empty and
\* the elapsed time stands at the duration or beyond
C37_Witness ==
  /\ transitionNew = 0 /\ transitionOld = 0
  /\ transitionProgress >= DURATION
  /\ moleculeGroup # 0

\* C38: in every state the atom sequence is set exactly when a current
\* molecule group is set.
C38_AtomsIffGroup ==
  (atoms # -1) <=> (moleculeGroup # 0)

\* a molecule was loaded and cycled, and the Hide action has cleared both
\* fields
C38_Witness ==
  /\ invoked = <<"Hide">>
  /\ Len(groups) >= 2
  /\ atoms = -1 /\ moleculeGroup = 0

\* C39 as stated: a peer's onmessage handles every frame the relay delivers
\* to it, the greeting included, without raising an error, and calls
\* loadPdbId only for a message of type load that carries a structure id.
C39_HandlerNeverThrows ==
  [][\A p \in Peers : OnMessageStep(p) =>
        LET str == toString(Head(toPeer[p]))
        IN  /\ ~onmessage(str).throws
            /\ peerLoads'[p] # peerLoads[p] =>
                 (str.body.type = "load" /\ str.body.pdbId # "")]_vars

====
